---------------------------- MODULE Spec2Model ----------------------------
(***************************************************************************)
(* A model of the technical-analysis and decision engine of TradingAIPro:  *)
(* indicator computation (indicators.js), signal scoring and the weighted  *)
(* recommendation (recommendationEngine, stored in supportUtils.js), the   *)
(* stop / target selection (supportUtils.js), order generation             *)
(* (orderGeneration, stored in styles.css) and the handlers of main.js     *)
(* (stored in config.js) that drive them.                                  *)
(*                                                                         *)
(* JavaScript numbers are modelled as rationals n/d (d > 0, in lowest      *)
(* terms).  The variable mantissa gives the precision of the arithmetic:   *)
(* 0 is exact arithmetic, p > 0 rounds the result of every operation to a  *)
(* binary floating-point number with p significant bits (round to nearest, *)
(* ties to even), as IEEE doubles do with p = 53.  null, undefined and NaN *)
(* are values of their own, with JavaScript's rules for truthiness,        *)
(* comparison and arithmetic.                                              *)
(***************************************************************************)
EXTENDS Integers, Sequences, FiniteSets, TLC

VARIABLES
    priceData,       \* fetchAllData: the bar series fetched (chronological)
    profileKey,      \* fetchAllData: the key selected in CONFIG.tradingProfiles
    latestData,      \* main.js global: snapshot + profile of the last analysis
    recInput,        \* the recommendation text handed to generateOrder
    generatedOrder,  \* main.js global: the last order proposal
    orderOutcome,    \* how the last generateMT4Order call ended
    analysis,        \* result of the last calculateWeightedRecommendation
    fnIn,            \* inputs of the pure function under test
    fnOut,           \* its result
    pc,              \* position of the run
    mantissa,        \* significant bits of a number (0: exact arithmetic)
    userSettings,    \* moneyManagement.js: the module's settings per profile
    localStorage,    \* the browser's entry 'moneyManagementSettings'
    sentimentData,   \* main.js global: the last sentiment analysis
    runs,            \* the fetchAllData calls: position and local constants
    apiCache,        \* caching.js: the entries of the APICache, oldest first
    cacheMaxSize,    \* caching.js: APICache.maxSize
    now              \* Date.now()

\* the globals of the asynchronous handlers and the cache
session == <<sentimentData, runs, apiCache, cacheMaxSize, now>>

\* the state outside the analysis and order handlers
env == <<mantissa, userSettings, localStorage, session>>

vars == <<priceData, profileKey, latestData, recInput, generatedOrder,
          orderOutcome, analysis, fnIn, fnOut, pc, env>>

---------------------------------------------------------------------------
(* JavaScript values *)

NULL  == [t |-> "null",      n |-> 0, d |-> 1]
UNDEF == [t |-> "undefined", n |-> 0, d |-> 1]
NAN   == [t |-> "NaN",       n |-> 0, d |-> 1]

\* the calls of fetchAllData that can be in progress at a time
Runs == 1..2

\* a call that has not started, or has returned
NoRun == [at |-> "idle", symbol |-> "", key |-> ""]

\* new APICache(): maxSize
DefaultMaxSize == 100

\* the page as loaded: no sentiment, no call in progress, an empty cache
SessionLoaded ==
    /\ sentimentData = NULL
    /\ runs = [r \in Runs |-> NoRun]
    /\ apiCache = << >>
    /\ cacheMaxSize = DefaultMaxSize
    /\ now = 0

RECURSIVE Gcd(_, _)
Gcd(a, b) == IF b = 0 THEN a ELSE Gcd(b, a % b)

AbsInt(a) == IF a < 0 THEN -a ELSE a

\* the number n/d in lowest terms, d # 0
R(n, d) ==
    CHOOSE r \in { [t |-> "num", n |-> n1 \div g, d |-> d1 \div g] :
                    g \in { Gcd(AbsInt(n), AbsInt(d)) },
                    n1 \in { IF d < 0 THEN -n ELSE n },
                    d1 \in { AbsInt(d) } } : TRUE

Num(n) == [t |-> "num", n |-> n, d |-> 1]

IsNum(x) == x.t = "num"

\* ToNumber: null -> 0, undefined -> NaN
ToNumber(x) ==
    CHOOSE r \in { IF v.t = "null" THEN Num(0)
                   ELSE IF v.t = "undefined" THEN NAN
                   ELSE v : v \in {x} } : TRUE

\* !!x : null, undefined, NaN and 0 are falsy
Truthy(x) == \E v \in {x} : v.t = "num" /\ v.n # 0

\* x || y
JsOr(x, y) == IF Truthy(x) THEN x ELSE y

\* const v = x; ... : F(v), with x evaluated once
Bind(x, F(_)) == CHOOSE r \in { F(v) : v \in {x} } : TRUE

Bind2(x, y, F(_, _)) == CHOOSE r \in { F(v, w) : v \in {x}, w \in {y} } : TRUE

Bind3(x, y, z, F(_, _, _)) ==
    CHOOSE r \in { F(v, w, u) : v \in {x}, w \in {y}, u \in {z} } : TRUE

RAddV(x, y) ==
    LET g == Gcd(x.d, y.d)
    IN  R(x.n * (y.d \div g) + y.n * (x.d \div g), (x.d \div g) * y.d)

RAdd(x, y) == Bind2(x, y, LAMBDA v, w : RAddV(v, w))

RNeg(x) == Bind(x, LAMBDA v : [t |-> "num", n |-> -v.n, d |-> v.d])

RSub(x, y) == RAdd(x, RNeg(y))

RMulV(x, y) ==
    IF x.n = 0 \/ y.n = 0 THEN Num(0)
    ELSE Bind2(Gcd(AbsInt(x.n), y.d), Gcd(AbsInt(y.n), x.d),
               LAMBDA g1, g2 : [t |-> "num", n |-> (x.n \div g1) * (y.n \div g2),
                                            d |-> (x.d \div g2) * (y.d \div g1)])

RMul(x, y) == Bind2(x, y, LAMBDA v, w : RMulV(v, w))

\* x / y for y # 0 (a zero divisor stops the evaluation: 1 \div 0)
RDivV(x, y) == IF y.n = 0 THEN Num(1 \div 0) ELSE RMulV(x, R(y.d, y.n))

RDiv(x, y) == Bind2(x, y, LAMBDA v, w : RDivV(v, w))

\* x < y, by cross-multiplication after cancelling the common factors
RLtV(x, y) ==
    LET g == Gcd(x.d, y.d)
        h == Gcd(AbsInt(x.n), AbsInt(y.n))
    IN  IF h = 0 THEN FALSE
        ELSE (x.n \div h) * (y.d \div g) < (y.n \div h) * (x.d \div g)

RLt(x, y) == \E v \in {x}, w \in {y} : RLtV(v, w)

RAbs(x) == Bind(x, LAMBDA v : [t |-> "num", n |-> AbsInt(v.n), d |-> v.d])

\* floor(x) for a rational x
RFloor(x) == Bind(x, LAMBDA v : v.n \div v.d)

\* Math.round(x): the nearest integer, halves rounded up
MathRound(x) == Num(RFloor(RAdd(x, R(1, 2))))

\* a >= 0 scaled by powers of two into [2^(p-1), 2^p): << scaled, exponent >>
RECURSIVE Normalise(_, _, _)
Normalise(a, e, p) ==
    IF a.n \div a.d >= 2 ^ p
    THEN Bind(RMulV(a, R(1, 2)), LAMBDA half : Normalise(half, e + 1, p))
    ELSE IF a.n \div a.d < 2 ^ (p - 1)
    THEN Bind(RMulV(a, Num(2)), LAMBDA double : Normalise(double, e - 1, p))
    ELSE << a, e >>

\* the integer nearest to a >= 0, halves to the even neighbour
RoundHalfEven(a) ==
    Bind(a.n \div a.d,
         LAMBDA f : IF 2 * (a.n - f * a.d) > a.d
                       \/ (2 * (a.n - f * a.d) = a.d /\ f % 2 = 1)
                    THEN f + 1 ELSE f)

\* the number a rounded to the precision of the arithmetic
Fl(a) ==
    IF mantissa = 0 \/ ~IsNum(a) \/ a.n = 0 THEN a
    ELSE Bind(Normalise([a EXCEPT !.n = AbsInt(a.n)], 0, mantissa),
              LAMBDA s : RMulV(Num((IF a.n < 0 THEN -1 ELSE 1) * RoundHalfEven(s[1])),
                               IF s[2] >= 0 THEN Num(2 ^ s[2]) ELSE R(1, 2 ^ (-s[2]))))

\* arithmetic and comparison on JavaScript values
JsArith(x, y, Op(_, _)) ==
    Bind2(ToNumber(x), ToNumber(y),
          LAMBDA a, b : IF IsNum(a) /\ IsNum(b) THEN Fl(Op(a, b)) ELSE NAN)

JsAdd(x, y) == JsArith(x, y, LAMBDA a, b : RAddV(a, b))

JsSub(x, y) == JsArith(x, y, LAMBDA a, b : RAddV(a, [b EXCEPT !.n = -b.n]))

JsMul(x, y) == JsArith(x, y, LAMBDA a, b : RMulV(a, b))

\* x / y; 0/0 is NaN. (x/0 for x # 0 is Infinity, which no modelled
\* computation produces: a zero divisor there implies a zero dividend.)
JsDiv(x, y) ==
    JsArith(x, y, LAMBDA a, b : IF b.n = 0 /\ a.n = 0 THEN NAN ELSE RDivV(a, b))

JsLt(x, y) ==
    \E a \in {ToNumber(x)}, b \in {ToNumber(y)} : IsNum(a) /\ IsNum(b) /\ RLtV(a, b)

JsGt(x, y) == JsLt(y, x)

JsAbs(x) ==
    Bind(ToNumber(x),
         LAMBDA a : IF IsNum(a) THEN [a EXCEPT !.n = AbsInt(a.n)] ELSE NAN)

\* Math.max(...s), Math.min(...s) of a non-empty set of numbers
SetMax(s) == CHOOSE x \in s : \A y \in s : ~RLt(x, y)
SetMin(s) == CHOOSE x \in s : \A y \in s : ~RLt(y, x)

---------------------------------------------------------------------------
(* Profile names.  Every routine normalises the name it is given with      *)
(* profileName.toLowerCase().replace(/\s+/g, '') and switches on the       *)
(* result.  The names are those of CONFIG.tradingProfiles and the short    *)
(* keys the switches also list.                                            *)

CanonicalNames == { "Falco dello Scalping", "Serpente dello Swing Trading",
                    "Orso del Position Trading",
                    "Tartaruga dell'Investimento a Lungo Termine" }

ShortNames == { "swing", "position", "longterm" }

ProfileNames == CanonicalNames \cup ShortNames

\* CONFIG.tradingProfiles[key].name
ProfileNameOf(key) ==
    CASE key = "scalping" -> "Falco dello Scalping"
      [] key = "swing"    -> "Serpente dello Swing Trading"
      [] key = "position" -> "Orso del Position Trading"
      [] key = "longterm" -> "Tartaruga dell'Investimento a Lungo Termine"

\* name.toLowerCase().replace(/\s+/g, '')
Normalize(name) ==
    CASE name = "Falco dello Scalping" -> "falcodelloscalping"
      [] name = "Serpente dello Swing Trading" -> "serpentedelloswingtrading"
      [] name = "Orso del Position Trading" -> "orsodelpositiontrading"
      [] name = "Tartaruga dell'Investimento a Lungo Termine"
             -> "tartarugadell'investimentoalungotermine"
      [] OTHER -> name

SeqRange(s) == { s[i] : i \in 1..Len(s) }

---------------------------------------------------------------------------
(* supportUtils.js: levels, stop loss, target price, risk/reward *)

findNearestSupportBelow(ti) ==
    Bind({ s \in SeqRange(ti.levels.supports) : JsLt(s, ti.priceData.current) },
         LAMBDA validSupports :
            IF Len(ti.levels.supports) = 0 \/ validSupports = {} THEN NULL
            ELSE SetMax(validSupports))

findNearestResistanceAbove(ti) ==
    Bind({ r \in SeqRange(ti.levels.resistances) : JsGt(r, ti.priceData.current) },
         LAMBDA validResistances :
            IF Len(ti.levels.resistances) = 0 \/ validResistances = {} THEN NULL
            ELSE SetMin(validResistances))

\* the targets at 38.2%, 61.8% and 100% of the range beyond the price
FibonacciTargets(currentPrice, range) ==
    [t |-> "obj",
     target1 |-> JsAdd(currentPrice, JsMul(range, R(382, 1000))),
     target2 |-> JsAdd(currentPrice, JsMul(range, R(618, 1000))),
     target3 |-> JsAdd(currentPrice, JsMul(range, Num(1)))]

\* NULL, or the targets above the price, range = price - support
calculateFibonacciTargetsLong(ti) ==
    Bind(findNearestSupportBelow(ti),
         LAMBDA support :
            IF ~Truthy(support) THEN NULL
            ELSE FibonacciTargets(ti.priceData.current,
                                  JsSub(ti.priceData.current, support)))

\* NULL, or the targets below the price: price - (resistance - price) * k
calculateFibonacciTargetsShort(ti) ==
    Bind(findNearestResistanceAbove(ti),
         LAMBDA resistance :
            IF ~Truthy(resistance) THEN NULL
            ELSE FibonacciTargets(ti.priceData.current,
                                  JsSub(ti.priceData.current, resistance)))

\* Math.sqrt(252) = 15.8745..., taken as the rational 127/8 = 15.875
Sqrt252 == R(127, 8)

\* currentPrice -/+ atrEstimate * multiplier
calculateATRStopLoss(ti, direction, multiplier) ==
    IF direction \notin {"long", "short"} THEN NULL
    ELSE Bind(JsMul(JsDiv(JsMul(ti.priceData.current,
                                JsDiv(ti.volatility.value, Num(100))), Sqrt252),
                    multiplier),
              LAMBDA offset :
                 IF direction = "long" THEN JsSub(ti.priceData.current, offset)
                 ELSE JsAdd(ti.priceData.current, offset))

findMABasedStopLoss(ti, direction) ==
    Bind({ ma \in { ti.movingAverages.smaShort, ti.movingAverages.ema20,
                    ti.movingAverages.smaMedium } : ma # NULL },
         LAMBDA cands :
            IF ~Truthy(ti.priceData.current) THEN NULL
            ELSE IF direction = "long"
                 THEN Bind({ ma \in cands : JsLt(ma, ti.priceData.current) },
                           LAMBDA below : IF below # {} THEN SetMax(below) ELSE NULL)
            ELSE IF direction = "short"
                 THEN Bind({ ma \in cands : JsGt(ma, ti.priceData.current) },
                           LAMBDA above : IF above # {} THEN SetMin(above) ELSE NULL)
            ELSE NULL)

\* switch (profile) of calculateOptimalStopLoss: the ATR multiplier
StopAtrMultiplier(profile) ==
    CASE profile = "falcodelloscalping" -> R(3, 2)
      [] profile \in {"serpentedelloswingtrading", "swing"} -> Num(2)
      [] profile \in {"orsodellpositiontrading", "position"} -> R(5, 2)
      [] profile \in {"tartarugadell'investimento", "longterm"} -> Num(3)
      [] OTHER -> Num(2)

\* switch (profile) of calculateOptimalStopLoss: the fixed stop percentage
StopPercentage(profile) ==
    CASE profile = "falcodelloscalping" -> R(5, 1000)
      [] profile \in {"serpentedelloswingtrading", "swing"} -> R(2, 100)
      [] profile \in {"orsodellpositiontrading", "position"} -> R(5, 100)
      [] profile \in {"tartarugadell'investimento", "longterm"} -> R(1, 10)
      [] OTHER -> R(3, 100)

\* if (value) list.push({value, weight, type})
PushIf(value, weight, type) ==
    IF Truthy(value) THEN << [value |-> value, weight |-> weight, type |-> type] >>
    ELSE << >>

\* possibleStops, in the order the code pushes them
PossibleStops(ti, direction, profileType) ==
    PushIf(IF direction = "long" THEN findNearestSupportBelow(ti)
           ELSE findNearestResistanceAbove(ti),
           Num(3), IF direction = "long" THEN "support" ELSE "resistance")
    \o PushIf(calculateATRStopLoss(ti, direction,
                                   StopAtrMultiplier(Normalize(profileType))),
              Num(2), "atr")
    \o PushIf(findMABasedStopLoss(ti, direction), Num(2), "ma")
    \o (IF Truthy(ti.priceData.current)
        THEN << [value |-> JsMul(ti.priceData.current,
                                 IF direction = "long"
                                 THEN JsSub(Num(1), StopPercentage(Normalize(profileType)))
                                 ELSE JsAdd(Num(1), StopPercentage(Normalize(profileType)))),
                 weight |-> Num(1), type |-> "percent"] >>
        ELSE << >>)

\* distance * weight of one candidate stop
StopScore(stop, currentPrice) ==
    JsMul(JsAbs(JsDiv(JsSub(stop.value, currentPrice), currentPrice)), stop.weight)

\* a faulty variant: the loop with score >= bestScore, the last candidate of
\* the highest score
RECURSIVE BestStopLastOnTies(_, _, _, _, _)
BestStopLastOnTies(stops, i, currentPrice, bestStop, bestScore) ==
    IF i > Len(stops) THEN bestStop
    ELSE Bind(StopScore(stops[i], currentPrice),
              LAMBDA score :
                 IF IsNum(score) /\ (bestScore = NULL \/ ~RLt(score, bestScore))
                 THEN BestStopLastOnTies(stops, i + 1, currentPrice, stops[i].value, score)
                 ELSE BestStopLastOnTies(stops, i + 1, currentPrice, bestStop, bestScore))

\* the loop over possibleStops: the first candidate of the highest score
RECURSIVE BestStopFrom(_, _, _, _, _)
BestStopFrom(stops, i, currentPrice, bestStop, bestScore) ==
    IF i > Len(stops) THEN bestStop
    ELSE Bind(StopScore(stops[i], currentPrice),
              LAMBDA score :
                 IF IsNum(score) /\ (bestScore = NULL \/ RLt(bestScore, score))
                 THEN BestStopFrom(stops, i + 1, currentPrice, stops[i].value, score)
                 ELSE BestStopFrom(stops, i + 1, currentPrice, bestStop, bestScore))

calculateOptimalStopLoss(ti, direction, profileType) ==
    Bind(PossibleStops(ti, direction, profileType),
         LAMBDA possibleStops :
            IF Len(possibleStops) = 0 THEN NULL
            ELSE BestStopFrom(possibleStops, 1, ti.priceData.current, NULL, NULL))

\* switch (profile) of calculateOptimalTargetPrice: the fixed target percentage
TargetPercentage(profile) ==
    CASE profile = "falcodelloscalping" -> R(1, 100)
      [] profile \in {"serpentedelloswingtrading", "swing"} -> R(3, 100)
      [] profile \in {"orsodellpositiontrading", "position"} -> R(8, 100)
      [] profile \in {"tartarugadell'investimento", "longterm"} -> R(15, 100)
      [] OTHER -> R(5, 100)

\* potentialTargets, in the order the code pushes them
PotentialTargets(ti, direction, profileType) ==
    PushIf(IF direction = "long" THEN findNearestResistanceAbove(ti)
           ELSE findNearestSupportBelow(ti),
           Num(3), IF direction = "long" THEN "resistance" ELSE "support")
    \o Bind(IF direction = "long" THEN calculateFibonacciTargetsLong(ti)
            ELSE calculateFibonacciTargetsShort(ti),
            LAMBDA fibTargets :
               IF fibTargets # NULL
               THEN << [value |-> fibTargets.target1, weight |-> Num(1), type |-> "fib38"],
                       [value |-> fibTargets.target2, weight |-> Num(2), type |-> "fib61"],
                       [value |-> fibTargets.target3, weight |-> R(3, 2),
                        type |-> "fib100"] >>
               ELSE << >>)
    \o << [value |-> JsMul(ti.priceData.current,
                           IF direction = "long"
                           THEN JsAdd(Num(1), TargetPercentage(Normalize(profileType)))
                           ELSE JsSub(Num(1), TargetPercentage(Normalize(profileType)))),
           weight |-> Num(1), type |-> "percent"] >>

\* Math.abs((target.value - currentPrice) / currentPrice)
TargetDistance(target, currentPrice) ==
    JsAbs(JsDiv(JsSub(target.value, currentPrice), currentPrice))

NoTarget == [value |-> UNDEF, weight |-> UNDEF, type |-> "none"]

\* case 'falcodelloscalping': reduce from null
RECURSIVE ReduceScalping(_, _, _, _)
ReduceScalping(targets, i, currentPrice, best) ==
    IF i > Len(targets) THEN best
    ELSE IF best = NULL
            \/ (JsLt(TargetDistance(targets[i], currentPrice), R(2, 100))
                /\ JsGt(targets[i].weight, best.weight))
         THEN ReduceScalping(targets, i + 1, currentPrice, targets[i])
         ELSE ReduceScalping(targets, i + 1, currentPrice, best)

\* case 'swing': reduce from {score: -Infinity}; bestScore = NULL stands for it
RECURSIVE ReduceSwing(_, _, _, _, _)
ReduceSwing(targets, i, currentPrice, best, bestScore) ==
    IF i > Len(targets) THEN best
    ELSE Bind(JsMul(targets[i].weight,
                    JsDiv(Num(1), TargetDistance(targets[i], currentPrice))),
              LAMBDA score :
                 IF IsNum(score) /\ (bestScore = NULL \/ RLt(bestScore, score))
                 THEN ReduceSwing(targets, i + 1, currentPrice, targets[i], score)
                 ELSE ReduceSwing(targets, i + 1, currentPrice, best, bestScore))

\* case 'position', 'longterm': reduce from {distance: -Infinity}
RECURSIVE ReducePosition(_, _, _, _, _)
ReducePosition(targets, i, currentPrice, best, bestDistance) ==
    IF i > Len(targets) THEN best
    ELSE Bind(TargetDistance(targets[i], currentPrice),
              LAMBDA distance :
                 IF ~JsLt(targets[i].weight, R(3, 2)) /\ IsNum(distance)
                    /\ (bestDistance = NULL \/ RLt(bestDistance, distance))
                 THEN ReducePosition(targets, i + 1, currentPrice, targets[i], distance)
                 ELSE ReducePosition(targets, i + 1, currentPrice, best, bestDistance))

\* default: reduce from null, the first candidate of the highest weight
RECURSIVE ReduceDefault(_, _, _)
ReduceDefault(targets, i, best) ==
    IF i > Len(targets) THEN best
    ELSE IF best = NULL \/ JsGt(targets[i].weight, best.weight)
         THEN ReduceDefault(targets, i + 1, targets[i])
         ELSE ReduceDefault(targets, i + 1, best)

\* NULL when there is no current price, else [value |-> ...]; the value is
\* undefined when the position/longterm reduce keeps its initial object
calculateOptimalTargetPrice(ti, direction, profileType) ==
    IF ~Truthy(ti.priceData.current) THEN NULL
    ELSE Bind2(PotentialTargets(ti, direction, profileType), Normalize(profileType),
               LAMBDA potentialTargets, profile :
                  Bind(CASE profile = "falcodelloscalping"
                              -> ReduceScalping(potentialTargets, 1,
                                                ti.priceData.current, NULL)
                         [] profile \in {"serpentedelloswingtrading", "swing"}
                              -> ReduceSwing(potentialTargets, 1,
                                             ti.priceData.current, NoTarget, NULL)
                         [] profile \in {"orsodellpositiontrading", "position",
                                         "tartarugadell'investimento", "longterm"}
                              -> ReducePosition(potentialTargets, 1,
                                                ti.priceData.current, NoTarget, NULL)
                         [] OTHER -> ReduceDefault(potentialTargets, 1, NULL),
                       LAMBDA bestTarget :
                          [t |-> "obj", value |-> bestTarget.value,
                           type |-> bestTarget.type]))

\* a faulty variant: risk / reward instead of reward / risk
InvertedRiskRewardRatio(entryPrice, targetPrice, stopLoss) ==
    IF ~Truthy(entryPrice) \/ ~Truthy(targetPrice) \/ ~Truthy(stopLoss) THEN NULL
    ELSE Bind(JsAbs(JsSub(targetPrice, entryPrice)),
              LAMBDA reward :
                 IF reward.n = 0 THEN NULL
                 ELSE JsDiv(JsAbs(JsSub(entryPrice, stopLoss)), reward))

\* Math.abs(targetPrice - entryPrice) / Math.abs(entryPrice - stopLoss), or
\* null when a price is falsy or the risk is 0
calculateRiskRewardRatio(entryPrice, targetPrice, stopLoss) ==
    IF ~Truthy(entryPrice) \/ ~Truthy(targetPrice) \/ ~Truthy(stopLoss) THEN NULL
    ELSE Bind(JsAbs(JsSub(entryPrice, stopLoss)),
              LAMBDA risk :
                 IF risk.n = 0 THEN NULL
                 ELSE JsDiv(JsAbs(JsSub(targetPrice, entryPrice)), risk))

---------------------------------------------------------------------------
(* indicators.js *)

\* data.slice(from - 1, to).reduce((a, b) => a + b, acc): the elements are
\* added to acc from left to right (the right half continues from the sum of
\* the left half)
RECURSIVE SumRange(_, _, _, _)
SumRange(data, from, to, acc) ==
    IF from > to THEN acc
    ELSE IF from = to THEN JsAdd(acc, data[from])
    ELSE Bind(SumRange(data, from, (from + to) \div 2, acc),
              LAMBDA left : SumRange(data, (from + to) \div 2 + 1, to, left))

\* the sum of Math.pow(val - mean, 2) over values[from..to]
RECURSIVE SumSquaredDiffs(_, _, _, _, _)
SumSquaredDiffs(values, from, to, mean, acc) ==
    IF from > to THEN acc
    ELSE IF from = to
    THEN JsAdd(acc, JsMul(JsSub(values[from], mean), JsSub(values[from], mean)))
    ELSE Bind(SumSquaredDiffs(values, from, (from + to) \div 2, mean, acc),
              LAMBDA left :
                 SumSquaredDiffs(values, (from + to) \div 2 + 1, to, mean, left))

\* the largest r in lo..(hi - 1) with r * r <= n, for lo * lo <= n < hi * hi
RECURSIVE ISqrt(_, _, _)
ISqrt(n, lo, hi) ==
    IF hi - lo <= 1 THEN lo
    ELSE IF ((lo + hi) \div 2) * ((lo + hi) \div 2) <= n
    THEN ISqrt(n, (lo + hi) \div 2, hi)
    ELSE ISqrt(n, lo, (lo + hi) \div 2)

\* the root of the perfect square n < 2^31 (no value for another n)
ExactRoot(n) == CHOOSE r \in { ISqrt(n, 0, 46341) } : r * r = n

\* the square root of a > 0 rounded to p bits: a = s[1] * 2^s[2] with an even
\* exponent and 2^(2p-2) <= s[1] < 2^(2p), so that the root of s[1] has p bits
\* before the point
SqrtScaled(s, p) ==
    Bind(ISqrt(s[1].n \div s[1].d, 2 ^ (p - 1), 2 ^ p),
         LAMBDA r :
            RMulV(IF RLtV(R((2 * r + 1) * (2 * r + 1), 4), s[1])
                     \/ (R((2 * r + 1) * (2 * r + 1), 4) = s[1] /\ r % 2 = 1)
                  THEN Num(r + 1) ELSE Num(r),
                  IF s[2] >= 0 THEN Num(2 ^ (s[2] \div 2))
                  ELSE R(1, 2 ^ ((-s[2]) \div 2))))

SqrtRounded(a, p) ==
    Bind(Normalise(a, 0, 2 * p),
         LAMBDA s : IF s[2] % 2 = 0 THEN SqrtScaled(s, p)
                    ELSE SqrtScaled(<< RMulV(s[1], R(1, 2)), s[2] + 1 >>, p))

\* Math.sqrt(x) (the square root of NaN is NaN); in exact arithmetic the root
\* has to be rational
MathSqrt(x) ==
    Bind(ToNumber(x),
         LAMBDA a : IF ~IsNum(a) \/ a.n < 0 THEN NAN
                    ELSE IF mantissa = 0 \/ a.n = 0
                    THEN R(ExactRoot(a.n), ExactRoot(a.d))
                    ELSE SqrtRounded(a, mantissa))

\* a faulty variant: calculateSMA dividing by period + 1
SMAOverPeriodPlusOne(data, period) ==
    [i \in 1..Len(data) |->
        IF i < period THEN NULL
        ELSE JsDiv(SumRange(data, i - period + 1, i, Num(0)), Num(period + 1))]

calculateSMA(data, period) ==
    [i \in 1..Len(data) |->
        IF i < period THEN NULL
        ELSE JsDiv(SumRange(data, i - period + 1, i, Num(0)), Num(period))]

\* the loop of calculateEMA from the element at position i on
RECURSIVE EMAFrom(_, _, _, _)
EMAFrom(prices, period, i, emaArray) ==
    IF i > Len(prices) THEN emaArray
    ELSE Bind(Append(emaArray,
                     IF i - 1 < period
                     THEN JsDiv(SumRange(prices, 1, i, Num(0)), Num(i))
                     ELSE JsAdd(JsMul(prices[i], JsDiv(Num(2), Num(period + 1))),
                                JsMul(emaArray[i - 1],
                                      JsSub(Num(1), JsDiv(Num(2), Num(period + 1)))))),
              LAMBDA next : EMAFrom(prices, period, i + 1, next))

calculateEMA(prices, period) ==
    IF Len(prices) < period THEN [i \in 1..Len(prices) |-> NULL]
    ELSE EMAFrom(prices, period, 2, << prices[1] >>)

\* one element of the array calculateMACD returns
MACDEntry(val, signal) ==
    [macd |-> val, signal |-> signal,
     histogram |-> IF val # NULL /\ signal # NULL THEN JsSub(val, signal) ELSE NULL]

calculateMACD(prices) ==
    IF Len(prices) < 26 THEN [i \in 1..Len(prices) |-> NULL]
    ELSE Bind2(calculateEMA(prices, 12), calculateEMA(prices, 26),
         LAMBDA ema12, ema26 :
            Bind([i \in 1..Len(prices) |-> JsSub(ema12[i], ema26[i])],
                 LAMBDA macdLine :
                    Bind(SelectSeq(calculateEMA(SelectSeq(macdLine, LAMBDA v : v # NULL), 9),
                                   LAMBDA v : v # NULL),
                         LAMBDA validValues :
                            [i \in 1..Len(macdLine) |->
                                MACDEntry(macdLine[i],
                                          IF i <= Len(macdLine) - Len(validValues)
                                          THEN NULL
                                          ELSE validValues[i - (Len(macdLine)
                                                                - Len(validValues))])])))

\* a faulty variant: the lower band one standard deviation below the mean,
\* whatever stdDev
BandsWithLowerAtOneDeviation(prices, period, stdDev) ==
    IF Len(prices) < period THEN [i \in 1..Len(prices) |-> NULL]
    ELSE [i \in 1..Len(prices) |->
            IF i < period THEN [middle |-> NULL, upper |-> NULL, lower |-> NULL]
            ELSE Bind(JsDiv(SumRange(prices, i - period + 1, i, Num(0)), Num(period)),
                 LAMBDA mean :
                    Bind(MathSqrt(JsDiv(SumSquaredDiffs(prices, i - period + 1, i,
                                                        mean, Num(0)),
                                        Num(period))),
                         LAMBDA sd :
                            [middle |-> mean,
                             upper |-> JsAdd(mean, JsMul(sd, Num(stdDev))),
                             lower |-> JsSub(mean, sd)]))]

calculateBollingerBands(prices, period, stdDev) ==
    IF Len(prices) < period THEN [i \in 1..Len(prices) |-> NULL]
    ELSE [i \in 1..Len(prices) |->
            IF i < period THEN [middle |-> NULL, upper |-> NULL, lower |-> NULL]
            ELSE Bind(JsDiv(SumRange(prices, i - period + 1, i, Num(0)), Num(period)),
                 LAMBDA mean :
                    Bind(MathSqrt(JsDiv(SumSquaredDiffs(prices, i - period + 1, i,
                                                        mean, Num(0)),
                                        Num(period))),
                         LAMBDA sd :
                            [middle |-> mean,
                             upper |-> JsAdd(mean, JsMul(sd, Num(stdDev))),
                             lower |-> JsSub(mean, JsMul(sd, Num(stdDev)))]))]

\* Math.max(a, b, c)
MathMax3(a, b, c) ==
    Bind3(ToNumber(a), ToNumber(b), ToNumber(c),
          LAMBDA x, y, z : IF IsNum(x) /\ IsNum(y) /\ IsNum(z)
                           THEN SetMax({ x, y, z }) ELSE NAN)

\* calculateADX, first loop: the true range of the bar at position j > 1
TrueRange(bars, j) ==
    MathMax3(JsSub(bars[j].high, bars[j].low),
             JsAbs(JsSub(bars[j].high, bars[j - 1].close)),
             JsAbs(JsSub(bars[j].low, bars[j - 1].close)))

\* calculateADX, first loop: pDM (plus = TRUE) or mDM of the bar at position j
DirectionalMove(bars, j, plus) ==
    Bind2(JsSub(bars[j].high, bars[j - 1].high),
          JsSub(bars[j - 1].low, bars[j].low),
          LAMBDA upMove, downMove :
             IF plus
             THEN IF JsGt(upMove, downMove) /\ JsGt(upMove, Num(0)) THEN upMove ELSE Num(0)
             ELSE IF JsGt(downMove, upMove) /\ JsGt(downMove, Num(0)) THEN downMove
                  ELSE Num(0))

\* (previous * (period - 1) + current) / period
Wilder(previous, current, period) ==
    JsDiv(JsAdd(JsMul(previous, Num(period - 1)), current), Num(period))

\* calculateADX, second loop from position j on: s holds atr, plusDM, minusDM,
\* plusDI and minusDI (plusDM and minusDM are overwritten by their smoothed
\* values)
RECURSIVE SmoothFrom(_, _, _, _)
SmoothFrom(trArray, period, j, s) ==
    IF j > Len(trArray) THEN s
    ELSE Bind(
           IF j - 1 <= period
           THEN Bind(JsDiv(SumRange(trArray, 1, j, Num(0)), Num(j)),
                LAMBDA atr :
                   [s EXCEPT
                      !.atr = Append(@, atr),
                      !.plusDI = Append(@, JsMul(JsDiv(SumRange(s.plusDM, 1, j, Num(0)),
                                                      atr), Num(100))),
                      !.minusDI = Append(@, JsMul(JsDiv(SumRange(s.minusDM, 1, j, Num(0)),
                                                       atr), Num(100)))])
           ELSE Bind3(Wilder(s.atr[j - 1], trArray[j], period),
                      Wilder(s.plusDM[j - 1], s.plusDM[j], period),
                      Wilder(s.minusDM[j - 1], s.minusDM[j], period),
                LAMBDA atr, smoothedPlusDM, smoothedMinusDM :
                   [atr |-> Append(s.atr, atr),
                    plusDM |-> [s.plusDM EXCEPT ![j] = smoothedPlusDM],
                    minusDM |-> [s.minusDM EXCEPT ![j] = smoothedMinusDM],
                    plusDI |-> Append(s.plusDI, JsMul(JsDiv(smoothedPlusDM, atr), Num(100))),
                    minusDI |-> Append(s.minusDI,
                                       JsMul(JsDiv(smoothedMinusDM, atr), Num(100)))]),
           LAMBDA next : SmoothFrom(trArray, period, j + 1, next))

\* calculateADX, third loop from position j on: a holds dx and adx
RECURSIVE DXFrom(_, _, _, _, _)
DXFrom(plusDI, minusDI, period, j, a) ==
    IF j > Len(plusDI) THEN a
    ELSE Bind(
           Bind(Append(a.dx,
                       IF JsAdd(plusDI[j], minusDI[j]) = Num(0) THEN Num(0)
                       ELSE JsMul(JsDiv(JsAbs(JsSub(plusDI[j], minusDI[j])),
                                        JsAdd(plusDI[j], minusDI[j])), Num(100))),
                LAMBDA dx :
                   [dx |-> dx,
                    adx |-> IF j - 1 < period + 1 THEN a.adx
                            ELSE IF j - 1 = period + 1
                            THEN Append(a.adx, JsDiv(SumRange(dx, j - period, j, Num(0)),
                                                     Num(period)))
                            ELSE Append(a.adx, Wilder(a.adx[j - 1], dx[j], period))]),
           LAMBDA next : DXFrom(plusDI, minusDI, period, j + 1, next))

calculateADX(bars, period) ==
    IF Len(bars) < period * 2 THEN [i \in 1..Len(bars) |-> NULL]
    ELSE Bind(SmoothFrom([j \in 1..Len(bars) |->
                             IF j = 1 THEN Num(0) ELSE TrueRange(bars, j)],
                         period, 2,
                         [atr |-> << Num(0) >>,
                          plusDM |-> [j \in 1..Len(bars) |->
                                         IF j = 1 THEN Num(0)
                                         ELSE DirectionalMove(bars, j, TRUE)],
                          minusDM |-> [j \in 1..Len(bars) |->
                                          IF j = 1 THEN Num(0)
                                          ELSE DirectionalMove(bars, j, FALSE)],
                          plusDI |-> << Num(0) >>, minusDI |-> << Num(0) >>]),
         LAMBDA s :
            Bind(DXFrom(s.plusDI, s.minusDI, period, 2,
                        [dx |-> << Num(0) >>, adx |-> [i \in 1..(period + 1) |-> NULL]]),
                 LAMBDA a :
                    [i \in 1..Len(bars) |->
                        [plusDI |-> s.plusDI[i], minusDI |-> s.minusDI[i],
                         adx |-> a.adx[i]]]))

\* arr.sort((a, b) => a - b) for an array of numbers: insertion of value
RECURSIVE InsertSorted(_, _)
InsertSorted(sorted, value) ==
    IF sorted = << >> THEN << value >>
    ELSE IF RLt(value, sorted[1]) THEN << value >> \o sorted
    ELSE << sorted[1] >> \o InsertSorted(Tail(sorted), value)

RECURSIVE SortAscending(_)
SortAscending(arr) ==
    IF arr = << >> THEN << >>
    ELSE InsertSorted(SortAscending(SubSeq(arr, 1, Len(arr) - 1)), arr[Len(arr)])

\* the positions of the local maxima of high (field = "high", sign = 1) or
\* of the local minima of low (field = "low", sign = -1)
LocalExtrema(relevantData, field, sign) ==
    SelectSeq([j \in 1..Len(relevantData) |-> j],
              LAMBDA j : /\ j > 1 /\ j < Len(relevantData)
                         /\ JsGt(JsMul(Num(sign), relevantData[j][field]),
                                 JsMul(Num(sign), relevantData[j - 1][field]))
                         /\ JsGt(JsMul(Num(sign), relevantData[j][field]),
                                 JsMul(Num(sign), relevantData[j + 1][field])))

\* groupSimilarLevels, the loop over the sorted array from position i on
RECURSIVE GroupFrom(_, _, _)
GroupFrom(arr, i, grouped) ==
    IF i > Len(arr) THEN grouped
    ELSE GroupFrom(arr, i + 1,
           Bind(grouped[Len(grouped)],
                LAMBDA lastGroup :
                   IF JsLt(JsDiv(JsAbs(JsSub(arr[i], lastGroup[Len(lastGroup)])),
                                 lastGroup[Len(lastGroup)]),
                           R(5, 1000))
                   THEN [grouped EXCEPT ![Len(grouped)] = Append(lastGroup, arr[i])]
                   ELSE Append(grouped, << arr[i] >>)))

groupSimilarLevels(arr) ==
    IF arr = << >> THEN << >>
    ELSE Bind(SortAscending(arr),
         LAMBDA sorted :
            Bind(GroupFrom(sorted, 2, << << sorted[1] >> >>),
                 LAMBDA grouped :
                    [g \in 1..Len(grouped) |->
                        JsDiv(SumRange(grouped[g], 1, Len(grouped[g]), Num(0)),
                              Num(Len(grouped[g])))]))

\* if (!levels.includes(value)) levels.push(value)
PushIfAbsent(levels, value) ==
    IF \E k \in 1..Len(levels) : levels[k] = value THEN levels ELSE Append(levels, value)

\* a faulty variant: the classic levels replace the grouped ones
ClassicLevelsAlone(resistanceLevels, supportLevels, high, low, pivotPoint) ==
    [pivotPoint |-> pivotPoint,
     resistanceLevels |->
        SortAscending(PushIfAbsent(<< JsSub(JsMul(Num(2), pivotPoint), low) >>,
                                   JsAdd(pivotPoint, JsSub(high, low)))),
     supportLevels |->
        SortAscending(PushIfAbsent(<< JsSub(JsMul(Num(2), pivotPoint), high) >>,
                                   JsSub(pivotPoint, JsSub(high, low))))]

\* the classic levels added to the grouped ones, then sorted
ClassicLevels(resistanceLevels, supportLevels, high, low, pivotPoint) ==
    [pivotPoint |-> pivotPoint,
     resistanceLevels |->
        SortAscending(PushIfAbsent(PushIfAbsent(resistanceLevels,
                                                JsSub(JsMul(Num(2), pivotPoint), low)),
                                   JsAdd(pivotPoint, JsSub(high, low)))),
     supportLevels |->
        SortAscending(PushIfAbsent(PushIfAbsent(supportLevels,
                                                JsSub(JsMul(Num(2), pivotPoint), high)),
                                   JsSub(pivotPoint, JsSub(high, low))))]

calculateSupportResistance(bars, lookbackPeriods) ==
    Bind(SubSeq(bars, 1, IF Len(bars) < lookbackPeriods THEN Len(bars)
                         ELSE lookbackPeriods),
         LAMBDA relevantData :
            Bind2(SetMax({ relevantData[j].high : j \in 1..Len(relevantData) }),
                  SetMin({ relevantData[j].low : j \in 1..Len(relevantData) }),
                  LAMBDA high, low :
                     ClassicLevels(
                        groupSimilarLevels(
                           [k \in 1..Len(LocalExtrema(relevantData, "high", 1)) |->
                               relevantData[LocalExtrema(relevantData, "high", 1)[k]].high]),
                        groupSimilarLevels(
                           [k \in 1..Len(LocalExtrema(relevantData, "low", -1)) |->
                               relevantData[LocalExtrema(relevantData, "low", -1)[k]].low]),
                        high, low,
                        JsDiv(JsAdd(JsAdd(high, low), relevantData[1].close), Num(3)))))

\* an element of the array detectTrendPatterns returns
Pattern(pattern, direction, strength) ==
    [pattern |-> pattern, direction |-> direction, strength |-> strength,
     implication |-> ""]

\* findDoubleTops().found and findDoubleBottoms().found: two of the extrema
\* within 1% of the first one, more than 3 and fewer than lookbackPeriods / 2
\* positions apart
DoubleFound(relevantData, field, extrema, lookbackPeriods) ==
    \E a, b \in 1..Len(extrema) :
       /\ a < b
       /\ JsLt(JsDiv(JsAbs(JsSub(relevantData[extrema[a]][field],
                                 relevantData[extrema[b]][field])),
                     relevantData[extrema[a]][field]),
               R(1, 100))
       /\ extrema[b] - extrema[a] > 3
       /\ 2 * (extrema[b] - extrema[a]) < lookbackPeriods

\* rSquared of the linear regression of close on x = n - 1 - i, from the sums
\* sumX, sumY, sumXY and sumXX
RSquared(x, y, n, sumX, sumY, sumXY, sumXX) ==
    Bind(JsDiv(JsSub(JsMul(n, sumXY), JsMul(sumX, sumY)),
               JsSub(JsMul(n, sumXX), JsMul(sumX, sumX))),
         LAMBDA slope :
            Bind2(JsDiv(JsSub(sumY, JsMul(slope, sumX)), n), JsDiv(sumY, n),
                  LAMBDA intercept, meanY :
                     JsDiv(SumSquaredDiffs([i \in 1..Len(x) |->
                                               JsAdd(JsMul(slope, x[i]), intercept)],
                                           1, Len(x), meanY, Num(0)),
                           SumSquaredDiffs(y, 1, Len(y), meanY, Num(0)))))

\* the Trend pattern of detectTrendPatterns
TrendPattern(relevantData, x, y) ==
    Bind(RSquared(x, y, Num(Len(x)), SumRange(x, 1, Len(x), Num(0)),
                  SumRange(y, 1, Len(y), Num(0)),
                  SumRange([i \in 1..Len(x) |-> JsMul(x[i], y[i])], 1, Len(x), Num(0)),
                  SumRange([i \in 1..Len(x) |-> JsMul(x[i], x[i])], 1, Len(x), Num(0))),
         LAMBDA rSquared :
            Pattern("Trend",
                    IF JsGt(relevantData[1].close, relevantData[Len(relevantData)].close)
                    THEN "rialzista" ELSE "ribassista",
                    IF JsGt(rSquared, R(7, 10)) THEN "forte"
                    ELSE IF JsGt(rSquared, R(3, 10)) THEN "moderato"
                    ELSE "debole"))

detectTrendPatterns(bars, lookbackPeriods) ==
    Bind(SubSeq(bars, 1, IF Len(bars) < lookbackPeriods THEN Len(bars)
                         ELSE lookbackPeriods),
         LAMBDA relevantData :
            << TrendPattern(relevantData,
                            [i \in 1..Len(relevantData) |-> Num(Len(relevantData) - i)],
                            [i \in 1..Len(relevantData) |-> relevantData[i].close]) >>
            \o (IF DoubleFound(relevantData, "high",
                               LocalExtrema(relevantData, "high", 1), lookbackPeriods)
                THEN << [Pattern("Doppio Massimo", "", "")
                           EXCEPT !.implication = "ribassista"] >>
                ELSE << >>)
            \o (IF DoubleFound(relevantData, "low",
                               LocalExtrema(relevantData, "low", -1), lookbackPeriods)
                THEN << [Pattern("Doppio Minimo", "", "")
                           EXCEPT !.implication = "rialzista"] >>
                ELSE << >>))

\* gains and losses of changes[from..to]: << gains, losses >>
RECURSIVE GainsLosses(_, _, _, _)
GainsLosses(changes, j, to, acc) ==
    IF j > to THEN acc
    ELSE GainsLosses(changes, j + 1, to,
                     IF JsGt(changes[j], Num(0))
                     THEN << JsAdd(acc[1], changes[j]), acc[2] >>
                     ELSE << acc[1], JsSub(acc[2], changes[j]) >>)

\* the value pushed for the window changes[from..to] of period changes
RSIValue(changes, from, to, period) ==
    Bind(GainsLosses(changes, from, to, << Num(0), Num(0) >>),
         LAMBDA gl :
            Bind2(JsDiv(gl[1], Num(period)), JsDiv(gl[2], Num(period)),
                  LAMBDA avgGain, avgLoss :
                     IF avgLoss = Num(0) THEN Num(100)
                     ELSE JsSub(Num(100),
                                JsDiv(Num(100), JsAdd(Num(1), JsDiv(avgGain, avgLoss))))))

\* the array returned: in JavaScript indices, changes[k] = prices[k+1] -
\* prices[k], rsiArray[0..period-1] = null and rsiArray[i] is computed from
\* changes[i-period..i-1] for period <= i < changes.length
calculateRSI(prices, period) ==
    IF Len(prices) <= period THEN [i \in 1..Len(prices) |-> NULL]
    ELSE Bind([k \in 1..(Len(prices) - 1) |-> JsSub(prices[k + 1], prices[k])],
              LAMBDA changes :
                 [i \in 1..period |-> NULL]
                 \o [m \in 1..(Len(changes) - period) |->
                        RSIValue(changes, m, m + period - 1, period)])

---------------------------------------------------------------------------
(* recommendationEngine.js (stored in supportUtils.js) *)

\* the keys of weights, in the order of for (const indicator in weights)
Indicators == << "rsi", "macd", "ema", "adx", "bollinger", "volume", "pattern" >>

Weights(rsi, macd, ema, adx, bollinger, volume, pattern) ==
    [rsi |-> rsi, macd |-> macd, ema |-> ema, adx |-> adx,
     bollinger |-> bollinger, volume |-> volume, pattern |-> pattern]

getWeightsForProfile(profileType) ==
    LET profile == Normalize(profileType)
    IN  CASE profile = "falcodelloscalping"
               -> Weights(R(5, 2), R(3, 2), Num(2), R(3, 2), Num(2), R(5, 2), Num(1))
          [] profile \in {"serpentedelloswingtrading", "serpenteoftheswingtrading",
                          "swing"}
               -> Weights(Num(2), R(5, 2), Num(2), Num(2), R(3, 2), Num(1), Num(2))
          [] profile \in {"orsodellpositiontrading", "orsodelpositiontrading",
                          "position"}
               -> Weights(R(3, 2), Num(2), R(5, 2), R(5, 2), Num(1), R(1, 2), R(3, 2))
          [] profile \in {"tartarugadell'investimentoalungotermine",
                          "tartarugadell'investimento", "tartarugadellinvestimento",
                          "longterm"}
               -> Weights(Num(1), R(3, 2), Num(3), R(3, 2), R(1, 2), R(1, 2), Num(1))
          [] OTHER
               -> Weights(Num(2), Num(2), Num(2), Num(2), R(3, 2), Num(1), R(3, 2))

calculateRSISignal(ti) ==
    Bind(ti.momentum.rsi,
         LAMBDA rsi :
            IF rsi = NULL THEN NULL
            ELSE IF JsGt(rsi, Num(75)) THEN Num(-2)
            ELSE IF JsGt(rsi, Num(65)) THEN Num(-1)
            ELSE IF JsLt(rsi, Num(25)) THEN Num(2)
            ELSE IF JsLt(rsi, Num(35)) THEN Num(1)
            ELSE IF JsGt(rsi, Num(60)) THEN R(-1, 2)
            ELSE IF JsLt(rsi, Num(40)) THEN R(1, 2)
            ELSE Num(0))

calculateMACDSignal(ti) ==
    Bind3(ti.momentum.macd, ti.momentum.macdSignal, ti.momentum.macdHistogram,
          LAMBDA macd, signal, histogram :
             IF macd = NULL \/ signal = NULL \/ histogram = NULL THEN NULL
             ELSE IF JsGt(macd, signal)
                  THEN IF JsGt(histogram, Num(0))
                       THEN IF JsGt(histogram, JsAbs(JsMul(macd, R(1, 10))))
                            THEN Num(2) ELSE Num(1)
                       ELSE R(1, 2)
             ELSE IF JsLt(histogram, Num(0))
                  THEN IF JsLt(histogram, JsSub(Num(0), JsAbs(JsMul(macd, R(1, 10)))))
                       THEN Num(-2) ELSE Num(-1)
             ELSE R(-1, 2))

\* the four contributions to emaSignal and to validIndicators, in order
EMAParts(price, ema20, smaMedium, smaLong) ==
    << IF ema20 # NULL /\ smaMedium # NULL
       THEN << IF JsGt(ema20, smaMedium) THEN Num(1) ELSE Num(-1), Num(1) >>
       ELSE << Num(0), Num(0) >>,
       IF ema20 # NULL
       THEN << IF JsGt(price, ema20) THEN Num(1) ELSE Num(-1), Num(1) >>
       ELSE << Num(0), Num(0) >>,
       IF smaLong # NULL
       THEN << IF JsGt(price, smaLong) THEN R(1, 2) ELSE R(-1, 2), R(1, 2) >>
       ELSE << Num(0), Num(0) >>,
       IF ema20 # NULL /\ smaMedium # NULL
       THEN Bind(JsDiv(ema20, smaMedium),
                 LAMBDA ratio :
                    << IF JsGt(ratio, R(1005, 1000)) THEN R(1, 2)
                       ELSE IF JsLt(ratio, R(995, 1000)) THEN R(-1, 2)
                       ELSE Num(0),
                       R(1, 2) >>)
       ELSE << Num(0), Num(0) >> >>

calculateEMASignal(ti) ==
    IF ~Truthy(ti.priceData.current) THEN NULL
    ELSE Bind(EMAParts(ti.priceData.current, ti.movingAverages.ema20,
                       ti.movingAverages.smaMedium, ti.movingAverages.smaLong),
              LAMBDA p :
                 Bind2(RAdd(RAdd(p[1][1], p[2][1]), RAdd(p[3][1], p[4][1])),
                       RAdd(RAdd(p[1][2], p[2][2]), RAdd(p[3][2], p[4][2])),
                       LAMBDA emaSignal, validIndicators :
                          IF validIndicators.n > 0
                          THEN RDiv(emaSignal, validIndicators) ELSE NULL))

calculateADXSignal(ti) ==
    Bind3(ti.trend.adx, ti.trend.plusDI, ti.trend.minusDI,
          LAMBDA adx, plusDI, minusDI :
             IF adx = NULL \/ plusDI = NULL \/ minusDI = NULL THEN NULL
             ELSE Bind(IF JsGt(adx, Num(30)) THEN Num(2)
                       ELSE IF JsGt(adx, Num(20)) THEN R(3, 2)
                       ELSE IF JsGt(adx, Num(15)) THEN Num(1)
                       ELSE R(1, 2),
                       LAMBDA adxStrength :
                          IF JsGt(plusDI, minusDI) THEN adxStrength
                          ELSE IF JsLt(plusDI, minusDI) THEN RNeg(adxStrength)
                          ELSE Num(0)))

calculateBollingerSignal(ti) ==
    Bind3(ti.priceData.current, ti.volatility.bollingerUpper,
          ti.volatility.bollingerLower,
          LAMBDA price, upper, lower :
             IF ~Truthy(upper) \/ ~Truthy(lower)
                \/ ~Truthy(ti.volatility.bollingerMiddle) \/ ~Truthy(price)
             THEN NULL
             ELSE IF JsGt(price, upper) THEN R(-3, 2)
             ELSE IF JsLt(price, lower) THEN R(3, 2)
             ELSE IF upper = lower THEN Num(0)
             ELSE Bind(JsDiv(JsSub(price, lower), JsSub(upper, lower)),
                       LAMBDA percentInBand :
                          IF JsGt(percentInBand, R(85, 100)) THEN Num(-1)
                          ELSE IF JsGt(percentInBand, R(65, 100)) THEN R(-1, 2)
                          ELSE IF JsLt(percentInBand, R(15, 100)) THEN Num(1)
                          ELSE IF JsLt(percentInBand, R(35, 100)) THEN R(1, 2)
                          ELSE Num(0)))

calculateVolumeSignal(ti) ==
    Bind3(ti.volume.current, ti.volume.average, JsOr(ti.priceData.change, Num(0)),
          LAMBDA currentVolume, avgVolume, priceChange :
             IF currentVolume = NULL \/ avgVolume = NULL THEN NULL
             ELSE IF JsGt(currentVolume, JsMul(avgVolume, Num(2)))
                  THEN IF JsGt(priceChange, Num(0)) THEN Num(2) ELSE Num(-2)
             ELSE IF JsGt(currentVolume, JsMul(avgVolume, R(3, 2)))
                  THEN IF JsGt(priceChange, Num(0)) THEN R(3, 2) ELSE R(-3, 2)
             ELSE IF JsGt(currentVolume, JsMul(avgVolume, R(12, 10)))
                  THEN IF JsGt(priceChange, Num(0)) THEN Num(1) ELSE Num(-1)
             ELSE IF JsLt(currentVolume, JsMul(avgVolume, R(1, 2))) THEN R(1, 2)
             ELSE Num(0))

\* signalValue and weight of one pattern
PatternValue(pattern) ==
    IF pattern.pattern = "Trend"
    THEN << IF pattern.direction = "rialzista" THEN Num(1) ELSE Num(-1),
            IF pattern.strength = "forte" THEN Num(2)
            ELSE IF pattern.strength = "debole" THEN R(1, 2)
            ELSE Num(1) >>
    ELSE IF pattern.pattern = "Doppio Massimo" THEN << R(-3, 2), Num(1) >>
    ELSE IF pattern.pattern = "Doppio Minimo" THEN << R(3, 2), Num(1) >>
    ELSE << IF pattern.implication = "rialzista" THEN R(3, 2)
            ELSE IF pattern.implication = "ribassista" THEN R(-3, 2)
            ELSE Num(0),
            Num(1) >>

\* the loop over trend.patterns: << patternSignal, patternWeight >>
RECURSIVE PatternSums(_, _, _)
PatternSums(patterns, i, acc) ==
    IF i > Len(patterns) THEN acc
    ELSE Bind(PatternValue(patterns[i]),
              LAMBDA v :
                 PatternSums(patterns, i + 1,
                             << RAdd(acc[1], RMul(v[1], v[2])), RAdd(acc[2], v[2]) >>))

calculatePatternSignal(ti) ==
    IF Len(ti.trend.patterns) = 0 THEN NULL
    ELSE Bind(PatternSums(ti.trend.patterns, 1, << Num(0), Num(0) >>),
              LAMBDA sums : IF sums[2].n > 0 THEN RDiv(sums[1], sums[2]) ELSE NULL)

\* a variant that tests the Hold threshold before the Buy threshold
RecommendationHoldBeforeBuy(score) ==
    IF JsGt(score, Num(7)) THEN "Compra Forte"
    ELSE IF JsGt(score, Num(-3)) THEN "Mantieni"
    ELSE IF JsGt(score, Num(3)) THEN "Compra"
    ELSE IF JsGt(score, Num(-7)) THEN "Vendi"
    ELSE "Vendi Forte"

determineRecommendation(score) ==
    IF JsGt(score, Num(7)) THEN "Compra Forte"
    ELSE IF JsGt(score, Num(3)) THEN "Compra"
    ELSE IF JsGt(score, Num(-3)) THEN "Mantieni"
    ELSE IF JsGt(score, Num(-7)) THEN "Vendi"
    ELSE "Vendi Forte"

\* Object.values(signals).filter(signal => signal !== null)
ValidSignals(signals) ==
    SelectSeq([i \in 1..Len(Indicators) |-> signals[Indicators[i]]],
              LAMBDA v : v # NULL)

\* values.reduce((sum, val) => sum + val, 0)
RECURSIVE SumSeq(_, _, _)
SumSeq(values, i, sum) ==
    IF i > Len(values) THEN sum ELSE SumSeq(values, i + 1, JsAdd(sum, values[i]))

\* signalToNoise > bound, where signalToNoise = |mean| / (stdDev || 1) and
\* stdDev = Math.sqrt(variance): compared through the squares when stdDev # 0
NoiseRatioAbove(mean, variance, bound) ==
    IF variance.n = 0 THEN RLt(bound, RAbs(mean))
    ELSE RLt(RMul(RMul(bound, bound), variance), RMul(mean, mean))

\* determineConfidence after its guard: mean, variance, signalToNoise,
\* scoreStrength, signalCoherence and their combination
ConfidenceOf(score, validSignals) ==
                 Bind(RDiv(SumSeq(validSignals, 1, Num(0)), Num(Len(validSignals))),
                 LAMBDA mean :
                    Bind3(RDiv(SumSeq([i \in 1..Len(validSignals) |->
                                          RMul(RSub(validSignals[i], mean),
                                               RSub(validSignals[i], mean))],
                                      1, Num(0)),
                               Num(Len(validSignals))),
                          IF JsGt(JsAbs(score), Num(5)) THEN "alta"
                          ELSE IF JsGt(JsAbs(score), Num(2)) THEN "media"
                          ELSE "bassa",
                          mean,
                          LAMBDA variance, scoreStrength, m :
                             Bind(IF NoiseRatioAbove(m, variance, R(3, 2)) THEN "alta"
                                  ELSE IF NoiseRatioAbove(m, variance, R(8, 10))
                                       THEN "media"
                                  ELSE "bassa",
                                  LAMBDA signalCoherence :
                                     IF scoreStrength = "alta" /\ signalCoherence = "alta"
                                     THEN "Alta"
                                     ELSE IF scoreStrength = "bassa"
                                             \/ signalCoherence = "bassa"
                                          THEN "Bassa"
                                     ELSE "Media")))

\* a variant whose guard lets a single signal through
ConfidenceFromOneSignal(score, signals) ==
    Bind(ValidSignals(signals),
         LAMBDA validSignals :
            IF Len(validSignals) < 1 THEN "Bassa"
            ELSE ConfidenceOf(score, validSignals))

determineConfidence(score, signals) ==
    Bind(ValidSignals(signals),
         LAMBDA validSignals :
            IF Len(validSignals) < 2 THEN "Bassa"
            ELSE ConfidenceOf(score, validSignals))

\* a variant that takes the range of a signal to be -1..+1
RECURSIVE ScoreSumsUnitRange(_, _, _, _)
ScoreSumsUnitRange(signals, weights, i, acc) ==
    IF i > Len(Indicators) THEN acc
    ELSE ScoreSumsUnitRange(signals, weights, i + 1,
           IF signals[Indicators[i]] # NULL
           THEN [totalScore |->
                    JsAdd(acc.totalScore,
                          JsMul(signals[Indicators[i]], weights[Indicators[i]])),
                 maxPossibleScore |->
                    JsAdd(acc.maxPossibleScore, JsAbs(weights[Indicators[i]]))]
           ELSE acc)

\* a variant that scores an unavailable signal as zero instead of excluding it
RECURSIVE ScoreSumsAllIndicators(_, _, _, _)
ScoreSumsAllIndicators(signals, weights, i, acc) ==
    IF i > Len(Indicators) THEN acc
    ELSE ScoreSumsAllIndicators(signals, weights, i + 1,
           [totalScore |->
               IF signals[Indicators[i]] # NULL
               THEN JsAdd(acc.totalScore,
                          JsMul(signals[Indicators[i]], weights[Indicators[i]]))
               ELSE acc.totalScore,
            maxPossibleScore |->
               JsAdd(acc.maxPossibleScore,
                     JsAbs(JsMul(weights[Indicators[i]], Num(2))))])

\* the loop for (const indicator in weights): totalScore and maxPossibleScore
RECURSIVE ScoreSums(_, _, _, _)
ScoreSums(signals, weights, i, acc) ==
    IF i > Len(Indicators) THEN acc
    ELSE ScoreSums(signals, weights, i + 1,
           IF signals[Indicators[i]] # NULL
           THEN [totalScore |->
                    JsAdd(acc.totalScore,
                          JsMul(signals[Indicators[i]], weights[Indicators[i]])),
                 maxPossibleScore |->
                    JsAdd(acc.maxPossibleScore,
                          JsAbs(JsMul(weights[Indicators[i]], Num(2))))]
           ELSE acc)

\* totalScore, maxPossibleScore, normalizedScore, recommendation and
\* confidence computed from the signals and the weights
WeightedScore(signals, weights) ==
    Bind(ScoreSums(signals, weights, 1,
                   [totalScore |-> Num(0), maxPossibleScore |-> Num(0)]),
         LAMBDA sums :
            Bind(IF JsGt(sums.maxPossibleScore, Num(0))
                 THEN JsMul(JsDiv(sums.totalScore, sums.maxPossibleScore), Num(10))
                 ELSE Num(0),
                 LAMBDA normalizedScore :
                    [signals |-> signals, weights |-> weights,
                     totalScore |-> sums.totalScore,
                     maxPossibleScore |-> sums.maxPossibleScore,
                     normalizedScore |-> normalizedScore,
                     recommendation |-> determineRecommendation(normalizedScore),
                     confidence |-> determineConfidence(normalizedScore, signals)]))

\* the returned object {recommendation, score, confidence} together with the
\* values the function logs: signals, weights, totalScore, normalizedScore
calculateWeightedRecommendation(ti, profileType) ==
    WeightedScore([rsi |-> calculateRSISignal(ti), macd |-> calculateMACDSignal(ti),
                   ema |-> calculateEMASignal(ti), adx |-> calculateADXSignal(ti),
                   bollinger |-> calculateBollingerSignal(ti),
                   volume |-> calculateVolumeSignal(ti),
                   pattern |-> calculatePatternSignal(ti)],
                  getWeightsForProfile(profileType))

---------------------------------------------------------------------------
(* moneyManagement.js *)

Settings(risk, daily, drawdown, volMultiplier, scaleIn, scaleOut, adjustment, leverage) ==
    [maxRiskPerTrade |-> risk, maxDailyRisk |-> daily, maxDrawdown |-> drawdown,
     volatilityMultiplier |-> volMultiplier, scaleInLevels |-> Num(scaleIn),
     scaleOutLevels |-> Num(scaleOut), positionSizeAdjustment |-> adjustment,
     recommendedLeverage |-> Num(leverage)]

moneyManagementDefaults ==
    [scalping |-> Settings(R(10, 1000), R(3, 100), R(5, 100), R(8, 10), 2, 3, R(12, 10), 10),
     swing    |-> Settings(R(15, 1000), R(4, 100), R(8, 100), Num(1), 3, 3, Num(1), 5),
     position |-> Settings(R(20, 1000), R(5, 100), R(12, 100), R(12, 10), 4, 2, R(9, 10), 3),
     longterm |-> Settings(R(25, 1000), R(5, 100), R(15, 100), R(15, 10), 5, 2, R(8, 10), 1)]

\* profile.includes(part), for the normalised names and the parts tested
Includes(profile, part) ==
    CASE profile = "falcodelloscalping"        -> part \in { "scalp", "falco" }
      [] profile = "serpentedelloswingtrading" -> part \in { "swing", "serpente" }
      [] profile = "orsodelpositiontrading"    -> part \in { "position", "orso" }
      [] profile = "tartarugadell'investimentoalungotermine" -> part = "tartaruga"
      [] profile = "scalping"                  -> part = "scalp"
      [] OTHER                                 -> part = profile

\* obj[name]: undefined for a property the object does not have
Field(obj, name) == IF name \in DOMAIN obj THEN obj[name] ELSE UNDEF

MathMax(x, y) == IF JsLt(x, y) THEN y ELSE x

MathMin(x, y) == IF JsLt(y, x) THEN y ELSE x

\* the key of userSettings that getMoneyManagementSettings reads
SettingsKey(profile) ==
    IF Includes(profile, "scalp") \/ Includes(profile, "falco") THEN "scalping"
    ELSE IF Includes(profile, "swing") \/ Includes(profile, "serpente") THEN "swing"
    ELSE IF Includes(profile, "position") \/ Includes(profile, "orso") THEN "position"
    ELSE IF Includes(profile, "longterm") \/ Includes(profile, "tartaruga") THEN "longterm"
    ELSE "swing"

\* reads the module's userSettings
getMoneyManagementSettings(accountInfo, profileName) ==
    Bind(userSettings[SettingsKey(Normalize(profileName))],
         LAMBDA settings :
            IF accountInfo # NULL /\ Truthy(accountInfo.balance)
            THEN IF JsLt(accountInfo.balance, Num(1000))
                 THEN [settings EXCEPT !.maxRiskPerTrade =
                          MathMax(R(5, 1000), JsMul(settings.maxRiskPerTrade, R(7, 10)))]
                 ELSE IF JsGt(accountInfo.balance, Num(50000))
                 THEN [settings EXCEPT !.maxRiskPerTrade =
                          MathMin(R(1, 100), JsMul(settings.maxRiskPerTrade, R(8, 10)))]
                 ELSE settings
            ELSE settings)

\* Math.round(x * 100) / 100
Round2(x) == RDiv(MathRound(RMul(x, Num(100))), Num(100))

\* a faulty variant: calculatePositionSize without the limit of 5% of the
\* balance
PositionSizeWithoutCap(accountBalance0, riskPercent0, maxRiskPerTrade0, volatility) ==
    Bind2(IF ~Truthy(riskPercent0) \/ ~JsGt(riskPercent0, Num(0))
          THEN R(1, 100) ELSE riskPercent0,
          IF ~Truthy(maxRiskPerTrade0) \/ ~JsGt(maxRiskPerTrade0, Num(0))
          THEN R(2, 100) ELSE maxRiskPerTrade0,
          LAMBDA riskPercent, maxRiskPerTrade :
             Round2(RMul(RMul(IF RLt(maxRiskPerTrade, riskPercent) THEN maxRiskPerTrade
                              ELSE riskPercent, Num(10000)),
                         IF JsGt(volatility, Num(25)) THEN R(8, 10)
                         ELSE IF JsLt(volatility, Num(10)) THEN R(12, 10)
                         ELSE Num(1))))

\* volatility is the snapshot's volatility.value (the text of toFixed(2), or
\* "N/D"), compared as a number
calculatePositionSize(accountBalance0, riskPercent0, maxRiskPerTrade0, volatility) ==
    Bind3(IF ~Truthy(accountBalance0) \/ ~JsGt(accountBalance0, Num(0))
          THEN Num(10000) ELSE accountBalance0,
          IF ~Truthy(riskPercent0) \/ ~JsGt(riskPercent0, Num(0))
          THEN R(1, 100) ELSE riskPercent0,
          IF ~Truthy(maxRiskPerTrade0) \/ ~JsGt(maxRiskPerTrade0, Num(0))
          THEN R(2, 100) ELSE maxRiskPerTrade0,
          LAMBDA accountBalance, riskPercent, maxRiskPerTrade :
             Bind3(RMul(accountBalance,
                        IF RLt(maxRiskPerTrade, riskPercent) THEN maxRiskPerTrade
                        ELSE riskPercent),
                   IF JsGt(volatility, Num(25)) THEN R(8, 10)
                   ELSE IF JsLt(volatility, Num(10)) THEN R(12, 10)
                   ELSE Num(1),
                   RMul(accountBalance, R(1, 10000)),
                   LAMBDA riskAmount, volatilityFactor, estimatedPipValue :
                      Bind2(Round2(RMul(RDiv(riskAmount, estimatedPipValue),
                                        volatilityFactor)),
                            RDiv(RMul(accountBalance, R(5, 100)), estimatedPipValue),
                            LAMBDA positionSize, maxSize :
                               IF RLt(maxSize, positionSize) THEN maxSize
                               ELSE positionSize)))

---------------------------------------------------------------------------
(* orderGeneration.js (stored in styles.css) *)

Recommendations == { "Compra Forte", "Compra", "Mantieni", "Vendi", "Vendi Forte" }

\* rec.toLowerCase().includes('compra') / includes('vendi'); "" is no text
determineOrderType(recommendation) ==
    CASE recommendation \in {"Compra Forte", "Compra"} -> "BUY"
      [] recommendation \in {"Vendi Forte", "Vendi"} -> "SELL"
      [] OTHER -> "none"

\* switch (profile) of calculateEntryPrice: the deviation from the price
EntryDeviation(profile) ==
    CASE profile = "falcodelloscalping" -> R(15, 10000)
      [] profile \in {"serpentedelloswingtrading", "serpenteoftheswingtrading",
                      "swing"} -> R(5, 1000)
      [] profile \in {"orsodellpositiontrading", "orsodelpositiontrading", "position",
                      "tartarugadell'investimento", "tartarugadellinvestimento",
                      "longterm"} -> R(1, 100)
      [] OTHER -> R(3, 1000)

calculateEntryPrice(ti, orderType, profileName) ==
    Bind2(ti.priceData.current,
          JsMul(ti.priceData.current, EntryDeviation(Normalize(profileName))),
          LAMBDA currentPrice, deviation :
             Bind(IF orderType = "BUY" THEN JsSub(currentPrice, deviation)
                  ELSE JsAdd(currentPrice, deviation),
                  LAMBDA entryPrice :
                     IF IsNum(entryPrice) THEN Round2(entryPrice) ELSE NAN))

getMinimumRiskRewardRatio(profileName) ==
    LET profile == Normalize(profileName)
    IN  CASE profile = "falcodelloscalping" -> R(12, 10)
          [] profile \in {"serpentedelloswingtrading", "serpenteoftheswingtrading",
                          "swing"} -> R(15, 10)
          [] profile \in {"orsodellpositiontrading", "orsodelpositiontrading",
                          "position"} -> Num(2)
          [] profile \in {"tartarugadell'investimento", "tartarugadellinvestimento",
                          "longterm"} -> R(25, 10)
          [] OTHER -> R(15, 10)

\* x.toFixed(2) of a number x >= 0, as the number it prints
ToFixed2(x) == Round2(x)

NoMessage == [kind |-> "none", ratio |-> NULL, minimum |-> NULL]

NoOrder == [valid |-> FALSE, message |-> NoMessage, orderType |-> "none",
            entryPrice |-> NULL, stopLoss |-> NULL, targetPrice |-> NULL,
            positionSize |-> NULL, riskRewardRatio |-> NULL, tradingProfile |-> ""]

Rejected(kind, ratio, minimum) ==
    [NoOrder EXCEPT !.message = [kind |-> kind, ratio |-> ratio, minimum |-> minimum]]

\* [outcome |-> "return", order |-> the object returned], or outcome "throw"
\* when riskRewardRatio.toFixed is called on null (a TypeError)
generateMT4Order(analysisData, recommendation, accountInfo) ==
    LET ti == analysisData.technicalIndicators
        name == analysisData.tradingProfile
        orderType == determineOrderType(recommendation)
        direction == IF orderType = "BUY" THEN "long" ELSE "short"
    IN  IF orderType = "none"
        THEN [outcome |-> "return", order |-> Rejected("noDirection", NULL, NULL)]
        ELSE Bind3(
          calculateEntryPrice(ti, orderType, name),
          calculateOptimalStopLoss(ti, direction, name),
          Bind(calculateOptimalTargetPrice(ti, direction, name),
               LAMBDA targetResult :
                  IF targetResult # NULL THEN targetResult.value ELSE NULL),
          LAMBDA entryPrice, stopLoss, targetPrice :
            IF ~Truthy(entryPrice) \/ ~Truthy(stopLoss) \/ ~Truthy(targetPrice)
            THEN [outcome |-> "return",
                  order |-> Rejected("invalidLevels", NULL, NULL)]
            ELSE Bind2(
              calculateRiskRewardRatio(entryPrice, targetPrice, stopLoss),
              getMinimumRiskRewardRatio(name),
              LAMBDA riskRewardRatio, minimumRR :
                IF JsLt(riskRewardRatio, minimumRR)
                THEN IF riskRewardRatio = NULL
                     THEN [outcome |-> "throw", order |-> NoOrder]
                     ELSE [outcome |-> "return",
                           order |-> Rejected("riskReward",
                                              ToFixed2(riskRewardRatio), minimumRR)]
                ELSE [outcome |-> "return",
                      order |->
                        [valid |-> TRUE, message |-> NoMessage,
                         orderType |-> orderType, entryPrice |-> entryPrice,
                         stopLoss |-> stopLoss, targetPrice |-> targetPrice,
                         \* moneySettings.riskPerTrade
                         positionSize |->
                            calculatePositionSize(
                               accountInfo.balance,
                               JsDiv(JsAbs(JsSub(entryPrice, stopLoss)), entryPrice),
                               Field(getMoneyManagementSettings(accountInfo, name),
                                     "riskPerTrade"),
                               ti.volatility.value),
                         riskRewardRatio |-> riskRewardRatio,
                         tradingProfile |-> name]]))

---------------------------------------------------------------------------
(* validation.js (stored in unnamed/part_000) *)

\* a faulty variant: validateOrderData without the check of the stop's side
ValidateWithoutStopSide(order) ==
    /\ order.orderType # "none"
    /\ Truthy(order.entryPrice) /\ Truthy(order.stopLoss)
    /\ Truthy(order.targetPrice) /\ Truthy(order.positionSize)
    /\ JsGt(order.positionSize, Num(0))

\* order.symbol is the non-empty symbol of the analysis
validateOrderData(order) ==
    /\ order.orderType # "none"
    /\ Truthy(order.entryPrice) /\ Truthy(order.stopLoss)
    /\ Truthy(order.targetPrice) /\ Truthy(order.positionSize)
    /\ JsGt(order.positionSize, Num(0))
    /\ ~(order.orderType = "BUY" /\ ~JsLt(order.stopLoss, order.entryPrice))
    /\ ~(order.orderType = "SELL" /\ ~JsGt(order.stopLoss, order.entryPrice))

---------------------------------------------------------------------------
(* main.js (stored in config.js): generateOrder *)

\* accountInfo of generateOrder
AccountInfo == [balance |-> Num(10000)]

NotValidated(order) ==
    [order EXCEPT !.valid = FALSE,
                  !.message = [kind |-> "validation", ratio |-> NULL, minimum |-> NULL]]

\* generateOrder(recommendation): generateMT4Order, then validateOrderData on
\* a valid order; an exception is caught and leaves generatedOrder as it was
GenerateOrder(recommendation) ==
    /\ pc \in {"analysed", "ordered"}
    /\ \E r \in { generateMT4Order(latestData, recommendation, AccountInfo) } :
          /\ orderOutcome' = r
          /\ generatedOrder' =
                IF r.outcome = "throw" THEN generatedOrder
                ELSE IF r.order.valid /\ ~validateOrderData(r.order)
                     THEN NotValidated(r.order)
                     ELSE r.order
    /\ recInput' = recommendation
    /\ pc' = "ordered"
    /\ UNCHANGED <<priceData, profileKey, latestData, analysis, fnIn, fnOut, env>>

---------------------------------------------------------------------------
(* Order generation over snapshots drawn from bounded sets *)

\* the largest number of support (resistance) levels of a snapshot
MaxLevels == 2

RECURSIVE SortedSeq(_)
SortedSeq(S) == IF S = {} THEN << >>
                ELSE LET m == SetMin(S) IN << m >> \o SortedSeq(S \ {m})

LevelLists(levels) ==
    { SortedSeq(S) : S \in { T \in SUBSET levels : Cardinality(T) <= MaxLevels } }

\* the sections of a snapshot the scoring reads, left unavailable
NoMomentum == [rsi |-> NULL, macd |-> NULL, macdSignal |-> NULL, macdHistogram |-> NULL]
NoTrend == [adx |-> NULL, plusDI |-> NULL, minusDI |-> NULL, patterns |-> << >>]
NoVolume == [current |-> NULL, average |-> NULL]

OrderSnapshot(current, supports, resistances, mas, vol) ==
    [priceData |-> [current |-> current, change |-> Num(0)],
     movingAverages |-> mas,
     momentum |-> NoMomentum,
     volatility |-> [value |-> vol, bollingerUpper |-> NULL,
                     bollingerMiddle |-> NULL, bollingerLower |-> NULL],
     trend |-> NoTrend,
     levels |-> [supports |-> supports, resistances |-> resistances],
     volume |-> NoVolume]

MAs(short, ema, medium) ==
    [smaShort |-> short, smaMedium |-> medium, smaLong |-> NULL, ema20 |-> ema]

\* prices near 1.004 (the rounding of the entry to cents matters): every
\* pair of level lists without moving averages and volatility, and every
\* choice of moving averages and volatility with one level on each side
\* (the support 0.99 of weight 3 and the moving average 0.983 of weight 2
\* have the same weighted distance from 1.004)
GridA ==
    { OrderSnapshot(R(1004, 1000), sup, res, MAs(NULL, NULL, NULL), Num(0)) :
        sup \in LevelLists({ R(95, 100), R(99, 100), R(102, 100) }),
        res \in LevelLists({ R(99, 100), R(102, 100), R(110, 100) }) }
    \cup
    { OrderSnapshot(R(1004, 1000), sup, << R(102, 100) >>, mas, vol) :
        sup \in { << >>, << R(99, 100) >> },
        mas \in { MAs(NULL, NULL, NULL), MAs(R(98, 100), Num(1), NULL),
                  MAs(R(103, 100), NULL, R(101, 100)), MAs(R(983, 1000), NULL, NULL) },
        vol \in { Num(0), R(3, 2), Num(30), NAN } }

\* prices near 101.01: entry 100, stop 95, target 110
GridB ==
    { OrderSnapshot(R(10101, 100), sup, res, MAs(NULL, NULL, NULL), Num(0)) :
        sup \in LevelLists({ Num(95) }),
        res \in LevelLists({ Num(102), Num(110) }) }

\* no price (and so no levels around it), and prices of a few cents
GridC ==
    { OrderSnapshot(Num(0), << >>, << >>, MAs(NULL, NULL, NULL), Num(0)) }
    \cup
    { OrderSnapshot(c, sup, res, MAs(NULL, NULL, NULL), Num(0)) :
        c \in { R(14, 1000), R(1, 1000) },
        sup \in LevelLists({ R(1, 100) }),
        res \in LevelLists({ R(2, 100) }) }

OrderSnapshots == GridA \cup GridB \cup GridC

InitOrder ==
    /\ SessionLoaded
    /\ mantissa = 0
    /\ userSettings = moneyManagementDefaults
    /\ localStorage = NULL
    /\ latestData \in [technicalIndicators : OrderSnapshots, tradingProfile : ProfileNames]
    /\ generatedOrder = NoOrder
    /\ orderOutcome = [outcome |-> "none", order |-> NoOrder]
    /\ recInput = ""
    /\ pc = "analysed"
    /\ priceData = << >>
    /\ profileKey = ""
    /\ analysis = NULL
    /\ fnIn = NULL
    /\ fnOut = NULL

\* the recommendation texts handed to generateOrder: one per direction
OrderRecommendations == { "Compra Forte", "Mantieni", "Vendi" }

NextOrder == \E recommendation \in OrderRecommendations : GenerateOrder(recommendation)

SpecOrder == InitOrder /\ [][NextOrder]_vars

---------------------------------------------------------------------------
(* The algorithmic recommendation over snapshots drawn from bounded sets *)

\* generateAIAnalysis, when the request to the AI service fails: the
\* recommendation of calculateWeightedRecommendation for the normalised name
BackupRecommendation ==
    /\ pc \in {"analysed", "recommended"}
    /\ analysis' = calculateWeightedRecommendation(latestData.technicalIndicators,
                                                   Normalize(latestData.tradingProfile))
    /\ pc' = "recommended"
    /\ UNCHANGED <<priceData, profileKey, latestData, recInput, generatedOrder,
                   orderOutcome, fnIn, fnOut, env>>

\* the values of each section of the snapshot: 1 rsi, 2 << macd, macdSignal,
\* macdHistogram >>, 3 << ema20, smaMedium, smaLong >>, 4 << adx, plusDI,
\* minusDI >>, 5 << bollingerUpper, bollingerMiddle, bollingerLower >>,
\* 6 << volume.current, volume.average, priceData.change >>, 7 patterns;
\* the current price is 100
SectionValues ==
    << { NULL, Num(20), Num(25), Num(30), Num(35), Num(38), Num(40), Num(50),
         Num(60), Num(62), Num(65), Num(70), Num(75), Num(80), Num(100) },
       { << NULL, NULL, NULL >>, << UNDEF, UNDEF, UNDEF >>,
         << Num(1), R(1, 2), R(1, 2) >>, << Num(1), R(95, 100), R(5, 100) >>,
         << Num(-1), R(-1, 2), R(-1, 2) >>, << Num(-1), R(-95, 100), R(-5, 100) >>,
         << Num(0), Num(0), Num(0) >> },
       { << NULL, NULL, NULL >>, << Num(101), Num(100), Num(90) >>,
         << Num(99), Num(100), Num(110) >>, << R(1002, 10), Num(100), NULL >>,
         << NULL, NULL, Num(90) >>, << Num(105), NULL, NULL >>,
         << NULL, Num(100), Num(110) >>, << Num(100), Num(100), Num(100) >> },
       { << NULL, NULL, NULL >>, << Num(35), Num(30), Num(10) >>,
         << Num(25), Num(10), Num(30) >>, << Num(18), Num(20), Num(20) >>,
         << Num(10), Num(25), Num(20) >>, << NAN, NAN, NAN >>,
         << Num(30), Num(20), Num(25) >> },
       { << NULL, NULL, NULL >>, << Num(110), Num(100), Num(90) >>,
         << Num(101), Num(96), Num(91) >>, << Num(99), Num(95), Num(91) >>,
         << Num(120), Num(111), Num(102) >>, << Num(109), Num(104), Num(99) >>,
         << Num(104), Num(98), Num(92) >>, << Num(115), Num(105), Num(95) >>,
         << Num(100), Num(100), Num(100) >> },
       { << NULL, NULL, Num(0) >>, << Num(300), Num(100), Num(1) >>,
         << Num(300), Num(100), Num(-1) >>, << Num(160), Num(100), Num(1) >>,
         << Num(160), Num(100), NULL >>, << Num(130), Num(100), Num(2) >>,
         << Num(130), Num(100), Num(0) >>, << Num(40), Num(100), Num(1) >>,
         << Num(40), Num(100), Num(-1) >>, << Num(100), Num(100), Num(1) >> },
       { << >>, << Pattern("Trend", "rialzista", "forte") >>,
         << Pattern("Trend", "ribassista", "debole") >>,
         << Pattern("Trend", "ribassista", "moderato") >>,
         << Pattern("Doppio Massimo", "", "") >>,
         << Pattern("Doppio Minimo", "", ""), Pattern("Trend", "rialzista", "moderato") >>,
         << Pattern("Doppio Minimo", "", ""), Pattern("Trend", "ribassista", "forte") >> } >>

\* every section unavailable, and every section at a value
NoSections == << NULL, << NULL, NULL, NULL >>, << NULL, NULL, NULL >>,
                 << NULL, NULL, NULL >>, << NULL, NULL, NULL >>,
                 << NULL, NULL, Num(0) >>, << >> >>
AllSections == << Num(20), << Num(1), R(1, 2), R(1, 2) >>,
                  << Num(101), Num(100), Num(90) >>, << Num(35), Num(30), Num(10) >>,
                  << Num(99), Num(95), Num(91) >>, << Num(300), Num(100), Num(-1) >>,
                  << Pattern("Trend", "rialzista", "forte") >> >>

\* each section unavailable or at its value, and one section at any of its
\* values with the others all unavailable or all at their value
SectionChoices ==
    { [i \in 1..7 |-> IF i \in on THEN AllSections[i] ELSE NoSections[i]] :
        on \in SUBSET (1..7) }
    \cup
    UNION { { [base EXCEPT ![i] = v] :
                base \in { NoSections, AllSections }, v \in SectionValues[i] } :
            i \in 1..7 }

ScoreSnapshot(c) ==
    [priceData |-> [current |-> Num(100), change |-> c[6][3]],
     movingAverages |-> [smaShort |-> NULL, smaMedium |-> c[3][2],
                         smaLong |-> c[3][3], ema20 |-> c[3][1]],
     momentum |-> [rsi |-> c[1], macd |-> c[2][1], macdSignal |-> c[2][2],
                   macdHistogram |-> c[2][3]],
     volatility |-> [value |-> Num(0), bollingerUpper |-> c[5][1],
                     bollingerMiddle |-> c[5][2], bollingerLower |-> c[5][3]],
     trend |-> [adx |-> c[4][1], plusDI |-> c[4][2], minusDI |-> c[4][3],
                patterns |-> c[7]],
     levels |-> [supports |-> << >>, resistances |-> << >>],
     volume |-> [current |-> c[6][1], average |-> c[6][2]]]

InitScore ==
    /\ SessionLoaded
    /\ mantissa = 0
    /\ userSettings = moneyManagementDefaults
    /\ localStorage = NULL
    /\ latestData \in [technicalIndicators : { ScoreSnapshot(c) : c \in SectionChoices },
                       tradingProfile : CanonicalNames]
    /\ generatedOrder = NoOrder
    /\ orderOutcome = [outcome |-> "none", order |-> NoOrder]
    /\ recInput = ""
    /\ pc = "analysed"
    /\ priceData = << >>
    /\ profileKey = ""
    /\ analysis = NULL
    /\ fnIn = NULL
    /\ fnOut = NULL

SpecScore == InitScore /\ [][BackupRecommendation]_vars

---------------------------------------------------------------------------
(* The pure functions, each applied once to an input drawn from a bounded
   set *)

\* scores around the thresholds of determineRecommendation
ScoreValues ==
    { Num(-10), Num(-8), R(-701, 100), Num(-7), R(-699, 100), Num(-5),
      R(-301, 100), Num(-3), R(-299, 100), Num(0), R(299, 100), Num(3),
      R(301, 100), Num(5), R(699, 100), Num(7), R(701, 100), Num(8), Num(10) }

ApplyDetermineRecommendation(score) ==
    /\ fnIn.fn = "none"
    /\ fnIn' = [fn |-> "determineRecommendation", score |-> score]
    /\ fnOut' = determineRecommendation(score)
    /\ UNCHANGED <<priceData, profileKey, latestData, recInput, generatedOrder,
                   orderOutcome, analysis, pc, env>>

\* signals: the indicators of a set available, all with the same value
SignalVectors ==
    { [rsi |-> s[1], macd |-> s[2], ema |-> s[3], adx |-> s[4], bollinger |-> s[5],
       volume |-> s[6], pattern |-> s[7]] :
        s \in { [i \in 1..7 |-> IF i \in on THEN v ELSE NULL] :
                  on \in SUBSET (1..7), v \in { Num(2), Num(-2), Num(1) } }
              \cup { << Num(2), Num(-2), Num(2), NULL, Num(1), R(1, 2), Num(0) >>,
                     << Num(-2), Num(-2), R(-3, 2), NULL, NULL, Num(2), Num(-1) >> } }

\* weights: all 1, the tables of the profiles, and other positive weights
WeightTables ==
    { Weights(Num(1), Num(1), Num(1), Num(1), Num(1), Num(1), Num(1)),
      Weights(R(1, 10), Num(7), Num(1), R(1, 3), Num(2), Num(5), R(9, 4)) }
    \cup { getWeightsForProfile(name) : name \in CanonicalNames \cup {"balanced"} }

ApplyWeightedScore(signals, weights) ==
    /\ fnIn.fn = "none"
    /\ fnIn' = [fn |-> "WeightedScore", signals |-> signals, weights |-> weights]
    /\ fnOut' = WeightedScore(signals, weights)
    /\ UNCHANGED <<priceData, profileKey, latestData, recInput, generatedOrder,
                   orderOutcome, analysis, pc, env>>

\* the largest number of prices of a series
MaxBars == 6

\* the periods of calculateRSI
RSIPeriods == { 2, 3 }

\* the first price of a series
FirstPrice == 10

\* the series of n prices from FirstPrice whose successive prices differ by
\* -1, 0 or +1
RECURSIVE PriceSeries(_)
PriceSeries(n) ==
    IF n = 0 THEN { << >> }
    ELSE IF n = 1 THEN { << Num(FirstPrice) >> }
    ELSE { Append(p, RAdd(p[n - 1], Num(step))) :
             p \in PriceSeries(n - 1), step \in { -1, 0, 1 } }

ApplyCalculateRSI(prices, period) ==
    /\ fnIn.fn = "none"
    /\ fnIn' = [fn |-> "calculateRSI", prices |-> prices, period |-> period]
    /\ fnOut' = calculateRSI(prices, period)
    /\ UNCHANGED <<priceData, profileKey, latestData, recInput, generatedOrder,
                   orderOutcome, analysis, pc, env>>

\* the arguments of calculatePositionSize: missing, invalid and valid ones
Balances == { UNDEF, NAN, Num(0), Num(-100), Num(500), Num(10000), Num(100000) }

RiskPercents ==
    { UNDEF, Num(0), R(-1, 100), R(5, 1000), R(1, 100), R(2, 100), R(4, 100), R(1, 10) }

MaxRisks ==
    { UNDEF, Num(0), R(5, 1000), R(1, 100), R(15, 1000), R(2, 100), R(25, 1000), R(6, 100) }

\* volatility.value: "N/D" (not a number) or a percentage
Volatilities == { NAN, Num(0), Num(5), Num(10), Num(15), Num(25), R(2501, 100), Num(30) }

ApplyCalculatePositionSize(accountBalance, riskPercent, maxRiskPerTrade, volatility) ==
    /\ fnIn.fn = "none"
    /\ fnIn' = [fn |-> "calculatePositionSize", accountBalance |-> accountBalance,
                riskPercent |-> riskPercent, maxRiskPerTrade |-> maxRiskPerTrade,
                volatility |-> volatility]
    /\ fnOut' = calculatePositionSize(accountBalance, riskPercent, maxRiskPerTrade,
                                      volatility)
    /\ UNCHANGED <<priceData, profileKey, latestData, recInput, generatedOrder,
                   orderOutcome, analysis, pc, env>>

InitPure ==
    /\ SessionLoaded
    /\ mantissa = 0
    /\ userSettings = moneyManagementDefaults
    /\ localStorage = NULL
    /\ fnIn = [fn |-> "none"]
    /\ fnOut = NULL
    /\ pc = "pure"
    /\ latestData = NULL
    /\ generatedOrder = NoOrder
    /\ orderOutcome = [outcome |-> "none", order |-> NoOrder]
    /\ recInput = ""
    /\ priceData = << >>
    /\ profileKey = ""
    /\ analysis = NULL

NextPure ==
    \/ \E score \in ScoreValues : ApplyDetermineRecommendation(score)
    \/ \E signals \in SignalVectors, weights \in WeightTables :
          ApplyWeightedScore(signals, weights)
    \/ \E n \in 0..MaxBars, period \in RSIPeriods :
          \E prices \in PriceSeries(n) : ApplyCalculateRSI(prices, period)
    \/ \E accountBalance \in Balances, riskPercent \in RiskPercents :
          \E maxRiskPerTrade \in MaxRisks, volatility \in Volatilities :
             ApplyCalculatePositionSize(accountBalance, riskPercent, maxRiskPerTrade,
                                        volatility)

SpecPure == InitPure /\ [][NextPure]_vars

---------------------------------------------------------------------------
(* The indicator functions, each applied once, in exact arithmetic and in
   arithmetic rounded to MantissaBits significant bits *)

MantissaBits == 9

ExtraBars == 3

AvgPeriods == 2..6

\* the decimal literals of the prices, read at the precision of the arithmetic
ConstantPrices ==
    { Fl(x) : x \in { Num(1), Num(13), Num(50), R(1024, 10), R(2816, 10),
                      R(10101, 100) } }

ApplyCalculateSMA(prices, period) ==
    /\ fnIn.fn = "none"
    /\ fnIn' = [fn |-> "calculateSMA", prices |-> prices, period |-> period]
    /\ fnOut' = calculateSMA(prices, period)
    /\ UNCHANGED <<priceData, profileKey, latestData, recInput, generatedOrder,
                   orderOutcome, analysis, pc, env>>

ApplyCalculateEMA(prices, period) ==
    /\ fnIn.fn = "none"
    /\ fnIn' = [fn |-> "calculateEMA", prices |-> prices, period |-> period]
    /\ fnOut' = calculateEMA(prices, period)
    /\ UNCHANGED <<priceData, profileKey, latestData, recInput, generatedOrder,
                   orderOutcome, analysis, pc, env>>

ApplyCalculateBollingerBands(prices, period, stdDev) ==
    /\ fnIn.fn = "none"
    /\ fnIn' = [fn |-> "calculateBollingerBands", prices |-> prices,
                period |-> period, stdDev |-> stdDev]
    /\ fnOut' = calculateBollingerBands(prices, period, stdDev)
    /\ UNCHANGED <<priceData, profileKey, latestData, recInput, generatedOrder,
                   orderOutcome, analysis, pc, env>>

ApplyCalculateMACD(prices) ==
    /\ fnIn.fn = "none"
    /\ fnIn' = [fn |-> "calculateMACD", prices |-> prices, period |-> 26]
    /\ fnOut' = calculateMACD(prices)
    /\ UNCHANGED <<priceData, profileKey, latestData, recInput, generatedOrder,
                   orderOutcome, analysis, pc, env>>

ApplyCalculateADX(bars, period) ==
    /\ fnIn.fn = "none"
    /\ fnIn' = [fn |-> "calculateADX", prices |-> bars, period |-> period]
    /\ fnOut' = calculateADX(bars, period)
    /\ UNCHANGED <<priceData, profileKey, latestData, recInput, generatedOrder,
                   orderOutcome, analysis, pc, env>>

\* n bars closing one higher each, from price + 1 on, with a range of 2
RisingBars(n, price) ==
    [i \in 1..n |-> [high |-> JsAdd(price, Num(i + 1)), low |-> JsAdd(price, Num(i - 1)),
                     close |-> JsAdd(price, Num(i))]]

\* the lengths of the series given to calculateMACD
MACDLengths == { 0, 1, 25, 26, 26 + ExtraBars }

\* the multiples of the standard deviation
BandWidths == { 1, 2 }

\* windows of two prices (their standard deviation is rational): the series
\* of two or three prices
ShortSeries ==
    UNION { [1..n -> ConstantPrices] : n \in 2..3 }

ApplyCalculateSupportResistance(bars, lookbackPeriods) ==
    /\ fnIn.fn = "none"
    /\ fnIn' = [fn |-> "calculateSupportResistance", prices |-> bars,
                period |-> lookbackPeriods]
    /\ fnOut' = calculateSupportResistance(bars, lookbackPeriods)
    /\ UNCHANGED <<priceData, profileKey, latestData, recInput, generatedOrder,
                   orderOutcome, analysis, pc, env>>

\* the largest number of spikes of a window
MaxSpikes == 3

\* the spikes of a window: highs above 200 (343 and 344 are within 0.5% of
\* their lower neighbour, 400 is not) and lows below 150 (100.25 is within
\* 0.5% of 100, 100 is not within 0.5% of 50)
Spikes ==
    { [field |-> "high", value |-> v] : v \in { Num(342), Num(343), Num(344), Num(400) } }
    \cup { [field |-> "low", value |-> v] : v \in { Num(50), Num(100), R(401, 4) } }

\* a window of 2n + 1 bars: bars of high 200 and low 150, and between each
\* two of them a bar whose high or low is the spike
SpikeBars(spikes) ==
    [i \in 1..(2 * Len(spikes) + 1) |->
        [high |-> IF i % 2 = 0 /\ spikes[i \div 2].field = "high"
                  THEN spikes[i \div 2].value ELSE Num(200),
         low |-> IF i % 2 = 0 /\ spikes[i \div 2].field = "low"
                 THEN spikes[i \div 2].value ELSE Num(150),
         close |-> Num(175)]]

\* the lookback of the profiles' windows: shorter and longer than the series
Lookbacks == { 5, 20 }

InitFloat ==
    /\ SessionLoaded
    /\ mantissa \in { 0, MantissaBits }
    /\ userSettings = moneyManagementDefaults
    /\ localStorage = NULL
    /\ fnIn = [fn |-> "none"]
    /\ fnOut = NULL
    /\ pc = "pure"
    /\ latestData = NULL
    /\ generatedOrder = NoOrder
    /\ orderOutcome = [outcome |-> "none", order |-> NoOrder]
    /\ recInput = ""
    /\ priceData = << >>
    /\ profileKey = ""
    /\ analysis = NULL

NextFloat ==
    \/ \E n \in 0..MaxSpikes, lookbackPeriods \in Lookbacks :
          \E spikes \in [1..n -> Spikes] :
             ApplyCalculateSupportResistance(SpikeBars(spikes), lookbackPeriods)
    \/ \E price \in ConstantPrices, period \in AvgPeriods :
          \E n \in 0..(period + ExtraBars) :
             ApplyCalculateSMA([i \in 1..n |-> price], period)
    \/ \E price \in ConstantPrices, period \in AvgPeriods :
          \E n \in 0..(period + ExtraBars) :
             ApplyCalculateEMA([i \in 1..n |-> price], period)
    \/ \E price \in ConstantPrices, period \in AvgPeriods, stdDev \in BandWidths :
          \E n \in 0..(period + ExtraBars) :
             ApplyCalculateBollingerBands([i \in 1..n |-> price], period, stdDev)
    \/ \E price \in ConstantPrices, period \in RSIPeriods :
          \E n \in 0..(period + 1 + ExtraBars) :
             ApplyCalculateRSI([i \in 1..n |-> JsAdd(price, Num(i))], period)
    \/ \E price \in ConstantPrices, n \in MACDLengths :
          ApplyCalculateMACD([i \in 1..n |-> price])
    \/ \E price \in ConstantPrices, period \in RSIPeriods :
          \E n \in 0..(2 * period + ExtraBars) :
             ApplyCalculateADX(RisingBars(n, price), period)
    \/ \E prices \in ShortSeries, stdDev \in BandWidths :
          ApplyCalculateBollingerBands(prices, 2, stdDev)

SpecFloat == InitFloat /\ [][NextFloat]_vars

---------------------------------------------------------------------------
(* The money-management settings: the module's userSettings, the entry of
   localStorage, and the calls that read and change them *)

\* {...settings, ...newSettings}
Spread(settings, newSettings) ==
    [f \in DOMAIN settings \cup DOMAIN newSettings |->
        IF f \in DOMAIN newSettings THEN newSettings[f] ELSE settings[f]]

SettingsKeys == DOMAIN moneyManagementDefaults

\* the profileType given to the update and reset calls: a key, another text,
\* or nothing
ProfileTypes == SettingsKeys \cup { "daytrading", "" }

\* the settings an update applies: a higher or a lower risk per trade, or
\* none
NewSettings == { [maxRiskPerTrade |-> R(5, 100)], [maxRiskPerTrade |-> R(2, 1000)], << >> }

\* the accountInfo and the profile names of the calls
Accounts == { [balance |-> Num(500)], [balance |-> Num(10000)], [balance |-> Num(100000)] }

GetMoneyManagementSettings(accountInfo, profileName) ==
    /\ pc = "settings"
    /\ fnIn' = [fn |-> "getMoneyManagementSettings", accountInfo |-> accountInfo,
                profileName |-> profileName]
    /\ fnOut' = getMoneyManagementSettings(accountInfo, profileName)
    /\ UNCHANGED <<priceData, profileKey, latestData, recInput, generatedOrder,
                   orderOutcome, analysis, pc, env>>

\* an invalid profileType returns null and changes nothing
UpdateMoneyManagementSettings(profileType, newSettings) ==
    /\ pc = "settings"
    /\ IF profileType \in SettingsKeys
       THEN /\ userSettings' = [userSettings EXCEPT
                                   ![profileType] = Spread(@, newSettings)]
            /\ localStorage' = userSettings'
       ELSE UNCHANGED <<userSettings, localStorage>>
    /\ UNCHANGED <<priceData, profileKey, latestData, recInput, generatedOrder,
                   orderOutcome, analysis, fnIn, fnOut, pc, mantissa, session>>

LoadMoneyManagementSettings ==
    /\ pc = "settings"
    /\ userSettings' = IF localStorage # NULL THEN localStorage ELSE userSettings
    /\ UNCHANGED <<priceData, profileKey, latestData, recInput, generatedOrder,
                   orderOutcome, analysis, fnIn, fnOut, pc, mantissa, localStorage,
                   session>>

\* no profileType resets every profile; an invalid one returns null and
\* changes nothing
ResetToDefaultSettings(profileType) ==
    /\ pc = "settings"
    /\ IF profileType = ""
       THEN userSettings' = moneyManagementDefaults /\ localStorage' = userSettings'
       ELSE IF profileType \in SettingsKeys
       THEN /\ userSettings' = [userSettings EXCEPT
                                   ![profileType] = moneyManagementDefaults[profileType]]
            /\ localStorage' = userSettings'
       ELSE UNCHANGED <<userSettings, localStorage>>
    /\ UNCHANGED <<priceData, profileKey, latestData, recInput, generatedOrder,
                   orderOutcome, analysis, fnIn, fnOut, pc, mantissa, session>>

\* the module as loaded: userSettings are the defaults, and localStorage is
\* empty or holds the settings an earlier session saved
InitSettings ==
    /\ SessionLoaded
    /\ mantissa = 0
    /\ userSettings = moneyManagementDefaults
    /\ localStorage \in
          { NULL, [moneyManagementDefaults EXCEPT
                      !.swing = Spread(@, [maxRiskPerTrade |-> R(5, 100)])] }
    /\ fnIn = [fn |-> "none"]
    /\ fnOut = NULL
    /\ pc = "settings"
    /\ latestData = NULL
    /\ generatedOrder = NoOrder
    /\ orderOutcome = [outcome |-> "none", order |-> NoOrder]
    /\ recInput = ""
    /\ priceData = << >>
    /\ profileKey = ""
    /\ analysis = NULL

NextSettings ==
    \/ \E accountInfo \in Accounts, profileName \in ProfileNames \cup { "daytrading" } :
          GetMoneyManagementSettings(accountInfo, profileName)
    \/ \E profileType \in ProfileTypes, newSettings \in NewSettings :
          UpdateMoneyManagementSettings(profileType, newSettings)
    \/ LoadMoneyManagementSettings
    \/ \E profileType \in ProfileTypes : ResetToDefaultSettings(profileType)

SpecSettings == InitSettings /\ [][NextSettings]_vars

---------------------------------------------------------------------------
(* The analysis run: fetchAllData over a fetched bar series, then the
   algorithmic recommendation *)

ProfileKeys == { "scalping", "swing", "position", "longterm" }

\* CONFIG.tradingProfiles[key].lookbackPeriods
LookbackPeriods(key) ==
    CASE key = "scalping" -> 30
      [] key = "swing"    -> 60
      [] key = "position" -> 90
      [] key = "longterm" -> 120

\* the most bars fetchHistoricalPrices returns to fetchAllData: limit =
\* lookbackPeriods, or twice that on the fallback timeframe of a daily or
\* weekly profile
FetchLimit(key) ==
    IF key \in { "position", "longterm" } THEN 2 * LookbackPeriods(key)
    ELSE LookbackPeriods(key)

\* the periods fetchAllData adapts to the profile
IndicatorPeriods(key, length) ==
    [smaShort  |-> IF key = "scalping" THEN 10 ELSE IF key = "swing" THEN 20 ELSE 30,
     smaMedium |-> IF key = "scalping" THEN 20 ELSE IF key = "swing" THEN 50 ELSE 100,
     smaLong   |-> IF length < 200 THEN length ELSE 200,
     rsi       |-> IF key = "scalping" THEN 7 ELSE IF key = "swing" THEN 14 ELSE 21,
     bollinger |-> IF key = "scalping" THEN 10 ELSE 20,
     adx       |-> IF key = "scalping" THEN 7 ELSE 14]

\* arr[arr.length - 1]
LastOf(arr) == IF Len(arr) = 0 THEN UNDEF ELSE arr[Len(arr)]

\* arr.length > 0 ? arr[arr.length - 1]?.field : null
LastField(arr, field) ==
    IF Len(arr) = 0 THEN NULL
    ELSE IF arr[Len(arr)] = NULL THEN UNDEF
    ELSE arr[Len(arr)][field]

\* the volatility of fetchAllData: the standard deviation of the returns, in
\* percent
Volatility(returns) ==
    IF Len(returns) = 0 THEN Num(0)
    ELSE JsMul(MathSqrt(JsDiv(SumSquaredDiffs(returns, 1, Len(returns),
                                              JsDiv(SumRange(returns, 1, Len(returns),
                                                             Num(0)),
                                                    Num(Len(returns))),
                                              Num(0)),
                              Num(Len(returns)))),
               Num(100))

\* adxData of fetchAllData
ADXData(bars, adxPeriod) ==
    IF Len(bars) >= adxPeriod * 2 THEN calculateADX(bars, adxPeriod)
    ELSE [i \in 1..Len(bars) |-> [adx |-> NULL, plusDI |-> NULL, minusDI |-> NULL]]

\* the object technicalIndicators fetchAllData builds from the indicator
\* arrays (volatility.value is kept as the number toFixed(2) prints)
Snapshot(closingPrices, volumes, bars, periods, macdData, bollingerBands, adxData, supportResistance, patterns) ==
    [priceData |->
        [current |-> JsOr(LastOf(closingPrices), Num(0)),
         open |-> JsOr(bars[Len(bars)].open, Num(0)),
         high |-> JsOr(bars[Len(bars)].high, Num(0)),
         low |-> JsOr(bars[Len(bars)].low, Num(0)),
         previous |-> IF Len(closingPrices) > 1
                      THEN closingPrices[Len(closingPrices) - 1] ELSE Num(0),
         change |-> IF Len(closingPrices) > 1
                    THEN JsMul(JsSub(JsDiv(closingPrices[Len(closingPrices)],
                                           closingPrices[Len(closingPrices) - 1]),
                                     Num(1)), Num(100))
                    ELSE Num(0)],
     movingAverages |->
        [smaShort |-> JsOr(LastOf(calculateSMA(closingPrices, periods.smaShort)), NULL),
         smaMedium |-> JsOr(LastOf(calculateSMA(closingPrices, periods.smaMedium)), NULL),
         smaLong |-> JsOr(LastOf(calculateSMA(closingPrices, periods.smaLong)), NULL),
         ema20 |-> JsOr(LastOf(calculateEMA(closingPrices, periods.smaShort)), NULL)],
     momentum |->
        [rsi |-> JsOr(LastOf(calculateRSI(closingPrices, periods.rsi)), NULL),
         macd |-> LastField(macdData, "macd"),
         macdSignal |-> LastField(macdData, "signal"),
         macdHistogram |-> LastField(macdData, "histogram")],
     volatility |->
        [value |-> ToFixed2(Volatility([i \in 1..(Len(closingPrices) - 1) |->
                                           JsSub(JsDiv(closingPrices[i + 1],
                                                       closingPrices[i]), Num(1))])),
         bollingerUpper |-> LastField(bollingerBands, "upper"),
         bollingerMiddle |-> LastField(bollingerBands, "middle"),
         bollingerLower |-> LastField(bollingerBands, "lower"),
         bollingerWidth |->
            IF Len(bollingerBands) > 0 /\ Truthy(LastField(bollingerBands, "middle"))
            THEN JsMul(JsDiv(JsSub(LastField(bollingerBands, "upper"),
                                   LastField(bollingerBands, "lower")),
                             LastField(bollingerBands, "middle")), Num(100))
            ELSE NULL],
     trend |->
        [adx |-> LastField(adxData, "adx"),
         plusDI |-> LastField(adxData, "plusDI"),
         minusDI |-> LastField(adxData, "minusDI"),
         patterns |-> patterns],
     levels |->
        [pivotPoint |-> JsOr(supportResistance.pivotPoint, Num(0)),
         resistances |-> supportResistance.resistanceLevels,
         supports |-> supportResistance.supportLevels],
     volume |->
        [current |-> IF Len(volumes) > 0 THEN volumes[Len(volumes)] ELSE Num(0),
         average |-> IF Len(volumes) > 0
                     THEN JsDiv(SumRange(volumes, 1, Len(volumes), Num(0)),
                                Num(Len(volumes)))
                     ELSE Num(0),
         change |-> IF Len(volumes) > 1 /\ Truthy(volumes[Len(volumes) - 1])
                    THEN JsMul(JsSub(JsDiv(volumes[Len(volumes)],
                                           volumes[Len(volumes) - 1]),
                                     Num(1)), Num(100))
                    ELSE Num(0)]]

\* technicalIndicators of fetchAllData for the bars fetched and the profile
\* selected
TechnicalIndicators(bars, key) ==
    Bind3([i \in 1..Len(bars) |-> bars[i].close],
          [i \in 1..Len(bars) |-> JsOr(bars[i].volume, Num(0))],
          IndicatorPeriods(key, Len(bars)),
          LAMBDA closingPrices, volumes, periods :
             Snapshot(closingPrices, volumes, bars, periods,
                      calculateMACD(closingPrices),
                      calculateBollingerBands(closingPrices, periods.bollinger, 2),
                      ADXData(bars, periods.adx),
                      calculateSupportResistance(bars, LookbackPeriods(key)),
                      detectTrendPatterns(bars, LookbackPeriods(key))))

\* fetchAllData with a profile selected and a non-empty series fetched (with
\* no profile or no bars the handler returns without touching latestData)
FetchAllData(key, bars) ==
    /\ pc = "idle"
    /\ Len(bars) > 0 /\ Len(bars) <= FetchLimit(key)
    /\ priceData' = bars
    /\ profileKey' = key
    /\ latestData' = [technicalIndicators |-> TechnicalIndicators(bars, key),
                      tradingProfile |-> ProfileNameOf(key)]
    /\ pc' = "analysed"
    /\ UNCHANGED <<recInput, generatedOrder, orderOutcome, analysis, fnIn, fnOut, env>>

\* the numbers of bars of the series fetched
BarCounts == { 1, 2, 13, 14, 25, 26, 28, 30, 60, 90 }

\* the closing prices and the volumes of the series fetched
PriceLevels == { 100, 200 }

\* the volume of the bars and of the last bar
VolumeLevels == { << 0, 0 >>, << 1000, 1000 >>, << 1000, 3000 >> }

\* the series fetched: length bars with open = high = low = close = price
\* and volume = volume, the last bar with volume = lastVolume
FlatBars(length, price, volume, lastVolume) ==
    [i \in 1..length |->
        [open |-> Num(price), high |-> Num(price), low |-> Num(price),
         close |-> Num(price),
         volume |-> IF i = length THEN Num(lastVolume) ELSE Num(volume)]]

\* the lengths of the trending series fetched
TrendLengths == { 8, 9 }

\* a trending series: the close doubles (rising) or halves from bar to bar,
\* between 2 and 2^length, with open = high = low = close and volume 1000
GeometricBars(length, rising) ==
    [i \in 1..length |->
        [open |-> Num(2 ^ (IF rising THEN i ELSE length + 1 - i)),
         high |-> Num(2 ^ (IF rising THEN i ELSE length + 1 - i)),
         low |-> Num(2 ^ (IF rising THEN i ELSE length + 1 - i)),
         close |-> Num(2 ^ (IF rising THEN i ELSE length + 1 - i)),
         volume |-> Num(1000)]]

Init ==
    /\ SessionLoaded
    /\ mantissa = 0
    /\ userSettings = moneyManagementDefaults
    /\ localStorage = NULL
    /\ pc = "idle"
    /\ priceData = << >>
    /\ profileKey = ""
    /\ latestData = NULL
    /\ generatedOrder = NoOrder
    /\ orderOutcome = [outcome |-> "none", order |-> NoOrder]
    /\ recInput = ""
    /\ analysis = NULL
    /\ fnIn = NULL
    /\ fnOut = NULL

Next ==
    \/ \E key \in ProfileKeys, length \in BarCounts, price \in PriceLevels,
          volume \in VolumeLevels :
          FetchAllData(key, FlatBars(length, price, volume[1], volume[2]))
    \/ \E key \in ProfileKeys, length \in TrendLengths, rising \in BOOLEAN :
          FetchAllData(key, GeometricBars(length, rising))
    \/ BackupRecommendation

Spec == Init /\ [][Next]_vars

---------------------------------------------------------------------------
(* Overlapping calls of fetchAllData (main.js, stored in config.js).  A     *)
(* call is suspended at each await, and the handlers of other clicks run   *)
(* meanwhile; runs[r] holds the position of call r and its local constants *)
(* symbol and profileKey, read from the page when the call starts.         *)

\* the symbols typed into the page
Symbols == { "AAPL", "MSFT" }

\* the profiles selected
AsyncKeys == { "scalping", "swing" }

\* the series the price request returns: none, or two flat bars
AsyncBars == { << >>, FlatBars(2, 100, 1000, 1000) }

\* a call that has returned
RunDone == [at |-> "done", symbol |-> "", key |-> ""]

\* fetchAllData up to `await fetchMarketContext`: the symbol and the profile
\* are read from the page
StartFetchAllData(r, symbol, key) ==
    /\ runs[r].at \in { "idle", "done" }
    /\ runs' = [runs EXCEPT ![r] = [at |-> "prices", symbol |-> symbol, key |-> key]]
    /\ UNCHANGED <<priceData, profileKey, latestData, recInput, generatedOrder,
                   orderOutcome, analysis, fnIn, fnOut, pc, mantissa, userSettings,
                   localStorage, sentimentData, apiCache, cacheMaxSize, now>>

\* the prices (and the company profile) arrive: with no bars the call shows
\* an error and returns; else it computes the indicators, stores latestData
\* and calls fetchSentimentAnalysis, suspended at `await fetchSentimentData`
PricesArrive(r, bars) ==
    /\ runs[r].at = "prices"
    /\ IF Len(bars) = 0
       THEN /\ runs' = [runs EXCEPT ![r] = RunDone]
            /\ UNCHANGED <<priceData, profileKey, latestData>>
       ELSE /\ priceData' = bars
            /\ profileKey' = runs[r].key
            /\ latestData' = [symbol |-> runs[r].symbol,
                              technicalIndicators |-> TechnicalIndicators(bars, runs[r].key),
                              tradingProfile |-> ProfileNameOf(runs[r].key)]
            /\ runs' = [runs EXCEPT ![r].at = "sentiment"]
    /\ UNCHANGED <<recInput, generatedOrder, orderOutcome, analysis, fnIn, fnOut, pc,
                   mantissa, userSettings, localStorage, sentimentData, apiCache,
                   cacheMaxSize, now>>

\* fetchSentimentData resolves (its result, also the fallback of its catch,
\* carries the symbol it was called with): fetchSentimentAnalysis stores it
\* in the global, and fetchAllData runs to its end
SentimentArrives(r) ==
    /\ runs[r].at = "sentiment"
    /\ sentimentData' = [symbol |-> runs[r].symbol]
    /\ runs' = [runs EXCEPT ![r] = RunDone]
    /\ UNCHANGED <<priceData, profileKey, latestData, recInput, generatedOrder,
                   orderOutcome, analysis, fnIn, fnOut, pc, mantissa, userSettings,
                   localStorage, apiCache, cacheMaxSize, now>>

\* latestData.sentimentData = sentimentData
WithSentiment(data, sentiment) ==
    [f \in DOMAIN data \cup { "sentimentData" } |->
        IF f = "sentimentData" THEN sentiment ELSE data[f]]

\* runAIAnalysis up to `await generateAIAnalysis(latestData)`: without
\* latestData it returns at once
RunAIAnalysis ==
    /\ pc \in { "idle", "ordered" }
    /\ latestData # NULL
    /\ latestData' = IF sentimentData # NULL
                     THEN WithSentiment(latestData, sentimentData)
                     ELSE latestData
    /\ pc' = "ai"
    /\ UNCHANGED <<priceData, profileKey, recInput, generatedOrder, orderOutcome,
                   analysis, fnIn, fnOut, env>>

\* the texts generateOrder can be called with: the recommendation matched in
\* the answer and adjusted with the sentiment, or none
AIRecommendations == OrderRecommendations \cup { "" }

\* the answer arrives: runAIAnalysis extracts the recommendation and calls
\* generateOrder, which returns at once without a recommendation
AIAnalysisArrives(recommendation) ==
    /\ pc = "ai"
    /\ IF recommendation = ""
       THEN /\ pc' = "idle"
            /\ UNCHANGED <<recInput, generatedOrder, orderOutcome>>
       ELSE /\ \E o \in { generateMT4Order(latestData, recommendation, AccountInfo) } :
                  /\ orderOutcome' = o
                  /\ generatedOrder' =
                        IF o.outcome = "throw" THEN generatedOrder
                        ELSE IF o.order.valid /\ ~validateOrderData(o.order)
                             THEN NotValidated(o.order)
                             ELSE o.order
            /\ recInput' = recommendation
            /\ pc' = "ordered"
    /\ UNCHANGED <<priceData, profileKey, latestData, analysis, fnIn, fnOut, env>>

NextAsync ==
    \/ \E r \in Runs, symbol \in Symbols, key \in AsyncKeys :
          StartFetchAllData(r, symbol, key)
    \/ \E r \in Runs, bars \in AsyncBars : PricesArrive(r, bars)
    \/ \E r \in Runs : SentimentArrives(r)
    \/ RunAIAnalysis
    \/ \E recommendation \in AIRecommendations : AIAnalysisArrives(recommendation)

SpecAsync == Init /\ [][NextAsync]_vars

---------------------------------------------------------------------------
(* The APICache of caching.js.  apiCache is the Map as the sequence of its  *)
(* entries in insertion order; an entry is its key with the item's         *)
(* timestamp and lastAccessed.  The clock counts cleanup intervals (half   *)
(* the TTL), so that the TTL is CacheTTL = 2 units.                        *)

\* this.ttl, in units of the clock
CacheTTL == 2

\* the clock stops here
MaxClock == 3

\* the keys of the requests cached
CacheKeys == { "prices", "profile", "news" }

\* the sizes passed to setMaxSize: invalid (0), and below and at the number
\* of keys
MaxSizes == { 0, 1, 2, 3 }

\* this.cache.has(key)
CacheHas(cache, key) == \E i \in 1..Len(cache) : cache[i].key = key

\* the position of key in the Map
CacheIndex(cache, key) == CHOOSE i \in 1..Len(cache) : cache[i].key = key

\* the entries at the positions kept, in their order
CacheKeep(cache, kept) ==
    [n \in 1..Cardinality(kept) |->
        cache[CHOOSE i \in kept : Cardinality({ j \in kept : j < i }) = n - 1]]

\* this.cache.delete(key)
CacheWithout(cache, key) ==
    CacheKeep(cache, { i \in 1..Len(cache) : cache[i].key # key })

\* pruneCache: nothing up to 80% of size; else the ceil(20%) entries that
\* come first in the (stable) sort by lastAccessed are deleted
pruneCache(cache, size) ==
    IF 10 * Len(cache) <= 8 * size THEN cache
    ELSE CacheKeep(cache,
            { i \in 1..Len(cache) :
                Cardinality({ j \in 1..Len(cache) :
                                \/ cache[j].lastAccessed < cache[i].lastAccessed
                                \/ /\ cache[j].lastAccessed = cache[i].lastAccessed
                                   /\ j < i })
                   >= (Len(cache) + 4) \div 5 })

\* this.cache.set(key, item): a new key is appended, a known key keeps its
\* position
MapSet(cache, item) ==
    IF CacheHas(cache, item.key)
    THEN [cache EXCEPT ![CacheIndex(cache, item.key)] = item]
    ELSE Append(cache, item)

\* the state the cache does not touch
CacheFrame ==
    <<priceData, profileKey, latestData, recInput, generatedOrder, orderOutcome,
      analysis, pc, mantissa, userSettings, localStorage, sentimentData, runs>>

APICacheSet(key) ==
    /\ pc = "cache"
    /\ apiCache' = MapSet(IF Len(apiCache) >= cacheMaxSize
                          THEN pruneCache(apiCache, cacheMaxSize)
                          ELSE apiCache,
                          [key |-> key, timestamp |-> now, lastAccessed |-> now])
    /\ fnIn' = [fn |-> "set", key |-> key]
    /\ fnOut' = UNDEF
    /\ UNCHANGED <<CacheFrame, cacheMaxSize, now>>

\* a miss returns null; an entry older than the TTL is deleted and null
\* returned; else the entry is touched and its value returned (the value is
\* modelled by the time it was stored)
APICacheGet(key) ==
    /\ pc = "cache"
    /\ fnIn' = [fn |-> "get", key |-> key]
    /\ IF ~CacheHas(apiCache, key)
       THEN fnOut' = NULL /\ UNCHANGED apiCache
       ELSE \E item \in { apiCache[CacheIndex(apiCache, key)] } :
               IF now - item.timestamp > CacheTTL
               THEN /\ apiCache' = CacheWithout(apiCache, key)
                    /\ fnOut' = NULL
               ELSE /\ apiCache' = MapSet(apiCache, [item EXCEPT !.lastAccessed = now])
                    /\ fnOut' = Num(item.timestamp)
    /\ UNCHANGED <<CacheFrame, cacheMaxSize, now>>

APICacheDelete(key) ==
    /\ pc = "cache"
    /\ apiCache' = CacheWithout(apiCache, key)
    /\ fnIn' = [fn |-> "delete", key |-> key]
    /\ fnOut' = UNDEF
    /\ UNCHANGED <<CacheFrame, cacheMaxSize, now>>

APICacheClear ==
    /\ pc = "cache"
    /\ apiCache' = << >>
    /\ fnIn' = [fn |-> "clear"]
    /\ fnOut' = UNDEF
    /\ UNCHANGED <<CacheFrame, cacheMaxSize, now>>

\* a size that is not positive is refused; else maxSize is set, and the
\* cache pruned once if it holds more
APICacheSetMaxSize(size) ==
    /\ pc = "cache"
    /\ fnIn' = [fn |-> "setMaxSize", size |-> size]
    /\ fnOut' = UNDEF
    /\ IF size <= 0
       THEN UNCHANGED <<apiCache, cacheMaxSize>>
       ELSE /\ cacheMaxSize' = size
            /\ apiCache' = IF Len(apiCache) > size
                           THEN pruneCache(apiCache, size)
                           ELSE apiCache
    /\ UNCHANGED <<CacheFrame, now>>

\* the interval of setupCacheCleanup: the expired entries are deleted
CacheCleanup ==
    /\ pc = "cache"
    /\ apiCache' = CacheKeep(apiCache,
                      { i \in 1..Len(apiCache) :
                          ~(now - apiCache[i].timestamp > CacheTTL) })
    /\ fnIn' = [fn |-> "cleanup"]
    /\ fnOut' = UNDEF
    /\ UNCHANGED <<CacheFrame, cacheMaxSize, now>>

\* time passes
Tick ==
    /\ pc = "cache"
    /\ now < MaxClock
    /\ now' = now + 1
    /\ fnIn' = [fn |-> "tick"]
    /\ fnOut' = UNDEF
    /\ UNCHANGED <<CacheFrame, apiCache, cacheMaxSize>>

\* the module as loaded: an empty cache of maxSize 100
InitCache ==
    /\ SessionLoaded
    /\ mantissa = 0
    /\ userSettings = moneyManagementDefaults
    /\ localStorage = NULL
    /\ fnIn = [fn |-> "none"]
    /\ fnOut = NULL
    /\ pc = "cache"
    /\ latestData = NULL
    /\ generatedOrder = NoOrder
    /\ orderOutcome = [outcome |-> "none", order |-> NoOrder]
    /\ recInput = ""
    /\ priceData = << >>
    /\ profileKey = ""
    /\ analysis = NULL

NextCache ==
    \/ \E key \in CacheKeys : APICacheSet(key)
    \/ \E key \in CacheKeys : APICacheGet(key)
    \/ \E key \in CacheKeys : APICacheDelete(key)
    \/ APICacheClear
    \/ \E size \in MaxSizes : APICacheSetMaxSize(size)
    \/ CacheCleanup
    \/ Tick

SpecCache == InitCache /\ [][NextCache]_vars

---------------------------------------------------------------------------
(* Properties of order generation (SpecOrder) *)

\* the levels generateMT4Order computes for the last request
LastOrderType == determineOrderType(recInput)
LastDirection == IF LastOrderType = "BUY" THEN "long" ELSE "short"
LastEntry ==
    calculateEntryPrice(latestData.technicalIndicators, LastOrderType,
                        latestData.tradingProfile)
LastStop ==
    calculateOptimalStopLoss(latestData.technicalIndicators, LastDirection,
                             latestData.tradingProfile)
LastTarget ==
    Bind(calculateOptimalTargetPrice(latestData.technicalIndicators, LastDirection,
                                     latestData.tradingProfile),
         LAMBDA targetResult : IF targetResult # NULL THEN targetResult.value ELSE NULL)

\* the three levels are usable numbers
LevelsUsable ==
    /\ pc = "ordered" /\ LastOrderType # "none"
    /\ Truthy(LastEntry) /\ Truthy(LastStop) /\ Truthy(LastTarget)

\* C1: every order proposal generateOrder publishes with valid = true has a
\* risk/reward ratio of at least the minimum of its profile and a stop on the
\* loss side of its entry price (BUY: stop < entry, SELL: stop > entry); the
\* entry price is the rounded, profile-offset entry
ValidOrderIsSound ==
    generatedOrder.valid =>
        /\ IsNum(generatedOrder.riskRewardRatio)
        /\ ~RLt(generatedOrder.riskRewardRatio,
                getMinimumRiskRewardRatio(generatedOrder.tradingProfile))
        /\ generatedOrder.orderType \in {"BUY", "SELL"}
        /\ generatedOrder.orderType = "BUY"
              => RLt(generatedOrder.stopLoss, generatedOrder.entryPrice)
        /\ generatedOrder.orderType = "SELL"
              => RLt(generatedOrder.entryPrice, generatedOrder.stopLoss)
        /\ generatedOrder.entryPrice =
              calculateEntryPrice(latestData.technicalIndicators,
                                  generatedOrder.orderType, generatedOrder.tradingProfile)

\* C1 witness: a valid BUY order whose entry is below the current price
ValidBuyOrderPublished ==
    /\ generatedOrder.valid
    /\ generatedOrder.orderType = "BUY"
    /\ RLt(generatedOrder.entryPrice, latestData.technicalIndicators.priceData.current)

\* generateMT4Order returned a valid order with the stop on the wrong side of
\* the entry, and generateOrder withdrew it
WrongSideOrderWithdrawn ==
    /\ orderOutcome.outcome = "return" /\ orderOutcome.order.valid
    /\ orderOutcome.order.orderType = "BUY"
    /\ ~RLt(orderOutcome.order.stopLoss, orderOutcome.order.entryPrice)
    /\ ~generatedOrder.valid

\* C2: whenever the three levels are usable, the risk is not zero and
\* |target - entry| / |entry - stop| is below the minimum of the profile,
\* generateMT4Order returns valid = false with a message that carries the
\* ratio (to two decimals) and the minimum
LowRatioRejected ==
    (LevelsUsable /\ LastEntry # LastStop
        /\ RLt(RDiv(RAbs(RSub(LastTarget, LastEntry)), RAbs(RSub(LastEntry, LastStop))),
               getMinimumRiskRewardRatio(latestData.tradingProfile)))
    => /\ orderOutcome.outcome = "return"
       /\ ~orderOutcome.order.valid
       /\ orderOutcome.order.message.kind = "riskReward"
       /\ orderOutcome.order.message.ratio =
             Round2(RDiv(RAbs(RSub(LastTarget, LastEntry)),
                         RAbs(RSub(LastEntry, LastStop))))
       /\ orderOutcome.order.message.minimum =
             getMinimumRiskRewardRatio(latestData.tradingProfile)

\* C2 witness: entry 100, stop 95, target 110 under a minimum of 2.5 is
\* rejected with ratio 2.0
RatioTwoRejected ==
    /\ LevelsUsable
    /\ LastEntry = Num(100) /\ LastStop = Num(95) /\ LastTarget = Num(110)
    /\ ~orderOutcome.order.valid
    /\ orderOutcome.order.message = [kind |-> "riskReward", ratio |-> Num(2),
                                      minimum |-> R(5, 2)]

\* C3: order generation never fails fatally: whenever the current price is
\* positive, generateMT4Order returns (with valid = false and a reason when
\* the risk is zero or a level is unusable) instead of throwing
NoFatalFailure ==
    (pc = "ordered" /\ Truthy(latestData.technicalIndicators.priceData.current))
    => orderOutcome.outcome = "return"

\* C18: the position size of a generated order is computed with the profile's
\* own maxRiskPerTrade, as returned by getMoneyManagementSettings for that
\* profile and balance, as the cap: effective risk =
\* min(|entry - stop| / entry, profile maxRiskPerTrade)
OrderSizeUsesProfileCap ==
    generatedOrder.valid =>
       generatedOrder.positionSize =
          calculatePositionSize(
             AccountInfo.balance,
             JsDiv(JsAbs(JsSub(generatedOrder.entryPrice, generatedOrder.stopLoss)),
                   generatedOrder.entryPrice),
             getMoneyManagementSettings(AccountInfo,
                                        generatedOrder.tradingProfile).maxRiskPerTrade,
             latestData.technicalIndicators.volatility.value)

\* the value of the canonical profile name among the four tiers << scalping,
\* swing, position, long term >>
TierOf(name, tiers) ==
    CASE name = ProfileNameOf("scalping") -> tiers[1]
      [] name = ProfileNameOf("swing")    -> tiers[2]
      [] name = ProfileNameOf("position") -> tiers[3]
      [] name = ProfileNameOf("longterm") -> tiers[4]

\* C20: for each of the four canonical profiles, identified by the name of
\* CONFIG.tradingProfiles passed to the order generator, every per-profile
\* choice uses the profile's own tier: fixed stop percentage 0.5% / 2% / 5% /
\* 10%, fixed target percentage 1% / 3% / 8% / 15%, ATR multiplier 1.5 / 2 /
\* 2.5 / 3, entry offset 0.15% / 0.5% / 1% / 1% and minimum risk/reward
\* 1.2 / 1.5 / 2 / 2.5
CanonicalProfileUsesOwnTier ==
    (pc = "ordered" /\ latestData.tradingProfile \in CanonicalNames) =>
       \E name \in { latestData.tradingProfile } :
          /\ StopPercentage(Normalize(name))
                = TierOf(name, << R(5, 1000), R(2, 100), R(5, 100), R(10, 100) >>)
          /\ TargetPercentage(Normalize(name))
                = TierOf(name, << R(1, 100), R(3, 100), R(8, 100), R(15, 100) >>)
          /\ StopAtrMultiplier(Normalize(name))
                = TierOf(name, << R(3, 2), Num(2), R(5, 2), Num(3) >>)
          /\ EntryDeviation(Normalize(name))
                = TierOf(name, << R(15, 10000), R(5, 1000), R(1, 100), R(1, 100) >>)
          /\ getMinimumRiskRewardRatio(name)
                = TierOf(name, << R(12, 10), R(15, 10), Num(2), R(25, 10) >>)

\* the same for the scalping and swing profiles only
FastProfilesUseOwnTier ==
    latestData.tradingProfile \in { ProfileNameOf("scalping"), ProfileNameOf("swing") }
       => CanonicalProfileUsesOwnTier

\* the candidates calculateOptimalTargetPrice generates for the last request
LastCandidates ==
    PotentialTargets(latestData.technicalIndicators, LastDirection,
                     latestData.tradingProfile)

\* generateMT4Order reached calculateOptimalTargetPrice with a current price
TargetComputed ==
    /\ pc = "ordered" /\ LastOrderType # "none"
    /\ Truthy(latestData.technicalIndicators.priceData.current)

\* the relative distance of a price from the current price is below 2%
WithinTwoPercent(value) ==
    JsLt(JsAbs(JsDiv(JsSub(value, latestData.technicalIndicators.priceData.current),
                     latestData.technicalIndicators.priceData.current)),
         R(2, 100))

\* C21: for the scalping profile, calculateOptimalTargetPrice returns a target
\* within 2% of the current price whenever at least one candidate lies within
\* 2% of the price, whatever the order and weights of the other candidates
ScalpingTargetWithinTwoPercent ==
    (/\ TargetComputed
     /\ latestData.tradingProfile = ProfileNameOf("scalping")
     /\ \E i \in 1..Len(LastCandidates) : WithinTwoPercent(LastCandidates[i].value))
    => WithinTwoPercent(LastTarget)

\* the indices of the candidates of weight >= 1.5
CredibleCandidates ==
    { i \in 1..Len(LastCandidates) : ~JsLt(LastCandidates[i].weight, R(3, 2)) }

\* C22: for the position and long-horizon profiles, the target returned by
\* calculateOptimalTargetPrice is the candidate farthest from the current
\* price among the candidates of weight >= 1.5; when no candidate has weight
\* >= 1.5, the order is rejected with a reason
SlowProfileTargetFarthestCredible ==
    (/\ TargetComputed
     /\ latestData.tradingProfile \in { ProfileNameOf("position"), "position",
                                        ProfileNameOf("longterm"), "longterm" })
    => IF CredibleCandidates = {}
       THEN /\ orderOutcome.outcome = "return"
            /\ ~orderOutcome.order.valid
            /\ orderOutcome.order.message.kind # "none"
       ELSE \E i \in CredibleCandidates :
               /\ LastTarget = LastCandidates[i].value
               /\ \A j \in CredibleCandidates :
                     ~RLt(TargetDistance(LastCandidates[i],
                                         latestData.technicalIndicators.priceData.current),
                          TargetDistance(LastCandidates[j],
                                         latestData.technicalIndicators.priceData.current))

\* the candidate stops calculateOptimalStopLoss generates for the last request
LastStops ==
    PossibleStops(latestData.technicalIndicators, LastDirection,
                  latestData.tradingProfile)

\* relative distance from the current price times weight of the i-th candidate
LastStopScore(i) ==
    RMul(RAbs(RDiv(RSub(LastStops[i].value,
                        latestData.technicalIndicators.priceData.current),
                   latestData.technicalIndicators.priceData.current)),
         LastStops[i].weight)

\* the weight the specification gives to a candidate of each kind
StopWeight(type) ==
    CASE type \in {"support", "resistance"} -> Num(3)
      [] type \in {"atr", "ma"} -> Num(2)
      [] type = "percent" -> Num(1)

\* C23: calculateOptimalStopLoss returns, among the candidates it generated
\* (support/resistance weight 3, ATR weight 2, moving average weight 2, fixed
\* percentage weight 1), one that maximizes relative distance from the
\* current price times weight, the first generated on ties; for a positive
\* current price the returned stop is strictly below the price for long and
\* strictly above it for short
StopMaximisesWeightedDistance ==
    (/\ pc = "ordered" /\ LastOrderType # "none"
     /\ JsGt(latestData.technicalIndicators.priceData.current, Num(0)))
    => /\ \A i \in 1..Len(LastStops) :
             /\ IsNum(LastStops[i].value)
             /\ LastStops[i].weight = StopWeight(LastStops[i].type)
       /\ \E i \in 1..Len(LastStops) :
             /\ LastStop = LastStops[i].value
             /\ \A j \in 1..Len(LastStops) : ~RLt(LastStopScore(i), LastStopScore(j))
             /\ \A j \in 1..(i - 1) : RLt(LastStopScore(j), LastStopScore(i))
       /\ LastDirection = "long"
             => RLt(LastStop, latestData.technicalIndicators.priceData.current)
       /\ LastDirection = "short"
             => RLt(latestData.technicalIndicators.priceData.current, LastStop)

\* C23 witness: a long stop where the support 0.99 (weight 3) and the moving
\* average 0.983 (weight 2) tie at the highest weighted distance, both above
\* the ATR and percentage candidates, and the support, generated first, is
\* returned
FirstOfTiedStopsReturned ==
    /\ pc = "ordered" /\ LastDirection = "long" /\ LastOrderType = "BUY"
    /\ Len(LastStops) = 4
    /\ LastStops[1].type = "support" /\ LastStops[3].type = "ma"
    /\ LastStopScore(1) = LastStopScore(3)
    /\ RLt(LastStopScore(2), LastStopScore(1))
    /\ RLt(LastStopScore(4), LastStopScore(1))
    /\ LastStop = R(99, 100)
    /\ LastStops[3].value = R(983, 1000)

---------------------------------------------------------------------------
(* Properties of the recommendation (SpecScore, SpecPure) *)

\* the indicators whose signal is available
Available(signals) == { i \in 1..Len(Indicators) : signals[Indicators[i]] # NULL }

\* StrongSell < Sell < Hold < Buy < StrongBuy
LabelRank(label) ==
    CASE label = "Vendi Forte" -> 0
      [] label = "Vendi" -> 1
      [] label = "Mantieni" -> 2
      [] label = "Compra" -> 3
      [] label = "Compra Forte" -> 4
      [] OTHER -> -1

\* C4: the label of a score lies as many steps above StrongSell as there are
\* thresholds among -7, -3, 3, 7 strictly below the score, and no score that is
\* at least as large gets a label further toward Sell
LabelMonotonic ==
    fnIn.fn = "determineRecommendation" =>
        /\ LabelRank(fnOut)
              = Cardinality({ t \in { -7, -3, 3, 7 } : RLt(Num(t), fnIn.score) })
        /\ \A b \in ScoreValues :
              ~RLt(b, fnIn.score)
                 => LabelRank(determineRecommendation(b)) >= LabelRank(fnOut)

\* a score on the Buy side of threshold 3 and not above threshold 7
BuyLabelled ==
    /\ fnIn.fn = "determineRecommendation"
    /\ fnIn.score = R(301, 100)
    /\ fnOut = "Compra"

\* C5: when fewer than 2 of the 7 signals are available the confidence is
\* Low, whatever the normalized score
ConfidenceLowBelowTwoSignals ==
    (pc = "recommended" /\ Cardinality(Available(analysis.signals)) < 2)
        => analysis.confidence = "Bassa"

\* one signal available, the strongest score, and confidence Low
SingleSignalFullScore ==
    /\ pc = "recommended"
    /\ Cardinality(Available(analysis.signals)) = 1
    /\ analysis.normalizedScore = Num(10)
    /\ analysis.confidence = "Bassa"

\* C6: every signal is unavailable or a number in [-2, +2], the normalized
\* score is a number in [-10, +10], and it is 0 when no signal is available
SignalsAndScoreInRange ==
    pc = "recommended" =>
        /\ \A i \in 1..Len(Indicators) :
              \/ analysis.signals[Indicators[i]] = NULL
              \/ /\ IsNum(analysis.signals[Indicators[i]])
                 /\ ~RLt(analysis.signals[Indicators[i]], Num(-2))
                 /\ ~RLt(Num(2), analysis.signals[Indicators[i]])
        /\ IsNum(analysis.normalizedScore)
        /\ ~RLt(analysis.normalizedScore, Num(-10))
        /\ ~RLt(Num(10), analysis.normalizedScore)
        /\ Available(analysis.signals) = {} => analysis.normalizedScore = Num(0)

\* all seven signals available, one of them at the end of its range, and a
\* score that is not 0
SevenSignalsScored ==
    /\ pc = "recommended"
    /\ Cardinality(Available(analysis.signals)) = 7
    /\ analysis.signals.rsi = Num(2)
    /\ analysis.normalizedScore # Num(0)

\* C7: when at least one signal is available and every available signal is
\* +2 the normalized score is 10 and the label StrongBuy, and when every
\* available signal is -2 the score is -10 and the label StrongSell
SaturatedSignalsGiveExtremeScore ==
    (fnIn.fn = "WeightedScore" /\ Available(fnIn.signals) # {}) =>
        /\ (\A i \in Available(fnIn.signals) : fnIn.signals[Indicators[i]] = Num(2))
              => /\ fnOut.normalizedScore = Num(10)
                 /\ fnOut.recommendation = "Compra Forte"
        /\ (\A i \in Available(fnIn.signals) : fnIn.signals[Indicators[i]] = Num(-2))
              => /\ fnOut.normalizedScore = Num(-10)
                 /\ fnOut.recommendation = "Vendi Forte"

\* all weights 1 and all seven signals +2
UnitWeightsAllSignalsTwo ==
    /\ fnIn.fn = "WeightedScore"
    /\ \A i \in 1..Len(Indicators) :
          /\ fnIn.weights[Indicators[i]] = Num(1)
          /\ fnIn.signals[Indicators[i]] = Num(2)
    /\ fnOut.normalizedScore = Num(10)
    /\ fnOut.recommendation = "Compra Forte"

\* the exact sum of s[from..to]
RECURSIVE ExactSum(_, _, _)
ExactSum(s, from, to) ==
    IF from > to THEN Num(0) ELSE RAdd(s[from], ExactSum(s, from + 1, to))

\* the exact mean and population variance of the available signals
SignalMean(signals) ==
    RDiv(ExactSum(ValidSignals(signals), 1, Len(ValidSignals(signals))),
         Num(Len(ValidSignals(signals))))

SignalVariance(signals) ==
    RDiv(ExactSum([i \in 1..Len(ValidSignals(signals)) |->
                      RMul(RSub(ValidSignals(signals)[i], SignalMean(signals)),
                           RSub(ValidSignals(signals)[i], SignalMean(signals)))],
                  1, Len(ValidSignals(signals))),
         Num(Len(ValidSignals(signals))))

\* |mean| / max(stdDev, 1) > bound: the divisor is 1 when the variance is at
\* most 1, else the comparison is made through the squares
ReferenceRatioAbove(signals, bound) ==
    IF ~RLt(Num(1), SignalVariance(signals)) THEN RLt(bound, RAbs(SignalMean(signals)))
    ELSE RLt(RMul(RMul(bound, bound), SignalVariance(signals)),
             RMul(SignalMean(signals), SignalMean(signals)))

\* the tier of a value: high, medium or low
Tier(high, medium) == IF high THEN "high" ELSE IF medium THEN "medium" ELSE "low"

\* the reference rule of the confidence
ReferenceConfidence(score, signals) ==
    Bind2(Tier(ReferenceRatioAbove(signals, R(3, 2)),
               ReferenceRatioAbove(signals, R(8, 10))),
          Tier(RLt(Num(5), RAbs(score)), RLt(Num(2), RAbs(score))),
          LAMBDA coherence, scoreStrength :
             IF coherence = "high" /\ scoreStrength = "high" THEN "Alta"
             ELSE IF coherence = "low" \/ scoreStrength = "low" THEN "Bassa"
             ELSE "Media")

\* C25: for every set of at least 2 available signals and every score,
\* determineConfidence equals the reference rule: signalToNoise = |mean| /
\* max(populationStdDev, 1); coherence high if > 1.5, medium if > 0.8, else
\* low; scoreStrength high if |score| > 5, medium if > 2, else low; result
\* High only if both are high, Low if either is low, else Medium
ConfidenceFollowsReference ==
    (pc = "recommended" /\ Cardinality(Available(analysis.signals)) >= 2)
        => analysis.confidence
              = ReferenceConfidence(analysis.normalizedScore, analysis.signals)

\* the same where the standard deviation of the signals is 0 or at least 1
ConfidenceFollowsReferenceOutsideUnit ==
    (/\ pc = "recommended" /\ Cardinality(Available(analysis.signals)) >= 2
     /\ \/ SignalVariance(analysis.signals) = Num(0)
        \/ ~RLt(SignalVariance(analysis.signals), Num(1)))
        => analysis.confidence
              = ReferenceConfidence(analysis.normalizedScore, analysis.signals)

\* priceData.change of the snapshot scored, 0 when it is missing
LastPriceChange == JsOr(latestData.technicalIndicators.priceData.change, Num(0))

\* C26: in every tier of the volume signal (current volume above 2x, 1.5x,
\* 1.2x the average, or below 0.5x the average) the sign of the returned
\* signal follows the direction of the latest price change: positive only
\* when the price rose, negative only when it fell, and no directional value
\* on an unchanged price
VolumeSignalFollowsPriceChange ==
    (pc = "recommended" /\ IsNum(analysis.signals.volume)) =>
       /\ RLt(Num(0), analysis.signals.volume) => JsGt(LastPriceChange, Num(0))
       /\ RLt(analysis.signals.volume, Num(0)) => JsLt(LastPriceChange, Num(0))

\* a volume below half the average on a falling price is scored +0.5
LowVolumeOnFallingPricePositive ==
    /\ pc = "recommended"
    /\ JsLt(latestData.technicalIndicators.volume.current,
            JsMul(latestData.technicalIndicators.volume.average, R(1, 2)))
    /\ JsLt(LastPriceChange, Num(0))
    /\ analysis.signals.volume = R(1, 2)

\* a volume above 1.2 times the average on an unchanged price is scored -1
HighVolumeOnUnchangedPriceNegative ==
    /\ pc = "recommended"
    /\ latestData.technicalIndicators.volume.current = Num(130)
    /\ latestData.technicalIndicators.volume.average = Num(100)
    /\ LastPriceChange = Num(0)
    /\ analysis.signals.volume = Num(-1)

\* the last element of the array calculateRSI returned
LastRSI == IF Len(fnOut) = 0 THEN NULL ELSE fnOut[Len(fnOut)]

\* C10: on a strictly increasing series of more than period prices the RSI
\* of the last bar is 100; it is unavailable exactly when the series has fewer
\* than period + 1 prices, and otherwise it is the value of the last period
\* price changes
RSIOfLastBar ==
    fnIn.fn = "calculateRSI" =>
        /\ (/\ Len(fnIn.prices) > fnIn.period
            /\ \A k \in 1..(Len(fnIn.prices) - 1) :
                  RLt(fnIn.prices[k], fnIn.prices[k + 1]))
              => LastRSI = Num(100)
        /\ LastRSI = NULL <=> Len(fnIn.prices) < fnIn.period + 1
        /\ Len(fnIn.prices) >= fnIn.period + 1
              => LastRSI = RSIValue([k \in 1..(Len(fnIn.prices) - 1) |->
                                        JsSub(fnIn.prices[k + 1], fnIn.prices[k])],
                                    Len(fnIn.prices) - fnIn.period,
                                    Len(fnIn.prices) - 1, fnIn.period)

---------------------------------------------------------------------------
(* Properties of the position size (SpecPure) *)

\* the argument x of calculatePositionSize, or the default when x is missing,
\* not a number, zero or negative
OrDefault(x, default) == IF IsNum(x) /\ x.n > 0 THEN x ELSE default

\* min(riskPercent, maxRiskPerTrade) of the call, after the defaults
RiskUsed ==
    SetMin({ OrDefault(fnIn.riskPercent, R(1, 100)),
             OrDefault(fnIn.maxRiskPerTrade, R(2, 100)) })

\* the factor of the call's volatility
VolatilityFactorUsed ==
    IF IsNum(fnIn.volatility) /\ RLt(Num(25), fnIn.volatility) THEN R(8, 10)
    ELSE IF IsNum(fnIn.volatility) /\ RLt(fnIn.volatility, Num(10)) THEN R(12, 10)
    ELSE Num(1)

\* 5% of the balance divided by the unit-risk estimate balance * 0.0001
SizeLimit ==
    RDiv(RMul(OrDefault(fnIn.accountBalance, Num(10000)), R(5, 100)),
         RMul(OrDefault(fnIn.accountBalance, Num(10000)), R(1, 10000)))

\* C15: for every accountBalance, riskPercent, maxRiskPerTrade and volatility
\* (invalid or non-positive values replaced by the defaults) the size returned
\* is at most 5% of the balance divided by balance * 0.0001, and below that
\* limit it is the size of the risk min(riskPercent, maxRiskPerTrade) scaled
\* by 0.8 above 25% volatility, by 1.2 below 10%, else by 1.0, rounded to two
\* decimals
PositionSizeCapped ==
    fnIn.fn = "calculatePositionSize" =>
       /\ IsNum(fnOut)
       /\ ~RLt(SizeLimit, fnOut)
       /\ fnOut = SetMin({ SizeLimit,
                           Round2(RMul(RMul(RiskUsed, Num(10000)),
                                       VolatilityFactorUsed)) })

\* a call whose risk of 6% at low volatility (720) is above the limit: the
\* size is the limit, 500
PositionSizeAtLimit ==
    /\ fnIn.fn = "calculatePositionSize"
    /\ fnIn.riskPercent = R(1, 10) /\ fnIn.maxRiskPerTrade = R(6, 100)
    /\ fnIn.volatility = Num(5)
    /\ fnOut = Num(500)

---------------------------------------------------------------------------
(* Properties of the indicator functions (SpecFloat) *)

\* the calls of calculateSMA and calculateEMA on a constant series
AverageOfConstant ==
    /\ fnIn.fn \in { "calculateSMA", "calculateEMA" }
    /\ Len(fnIn.prices) >= fnIn.period

\* the entries of the result the function computes from the prices
AverageDefined(i) == fnIn.fn = "calculateEMA" \/ i >= fnIn.period

\* |x - price| <= (period + 1) * price / 2^mantissa
WithinRounding(x, price, period) ==
    ~RLtV(RMulV(Num(period + 1), price),
          RMulV(Num(2 ^ mantissa), RAbs(RSub(x, price))))

\* C11 as stated: for a constant price P repeated n >= period times,
\* calculateSMA returns exactly P at every index >= period - 1 and
\* calculateEMA returns exactly P at every index.
ConstantSeriesExact ==
    AverageOfConstant =>
       \A i \in 1..Len(fnOut) : AverageDefined(i) => fnOut[i] = fnIn.prices[1]

\* C11, amended: for a constant price P repeated n >= period times, every
\* entry calculateSMA computes (index >= period - 1) and every entry
\* calculateEMA computes is a number; it is exactly P in exact arithmetic,
\* and within (period + 1) * P / 2^p of P in arithmetic rounded to p bits.
ConstantSeriesWithinRounding ==
    AverageOfConstant =>
       /\ Len(fnOut) = Len(fnIn.prices)
       /\ \A i \in 1..Len(fnOut) :
             IF AverageDefined(i)
             THEN /\ IsNum(fnOut[i])
                  /\ mantissa = 0 => fnOut[i] = fnIn.prices[1]
                  /\ mantissa # 0 =>
                        WithinRounding(fnOut[i], fnIn.prices[1], fnIn.period)
             ELSE fnOut[i] = NULL

\* a rounded average of a constant series that differs from the constant,
\* in the recurrence phase of calculateEMA
ConstantSeriesRounded ==
    /\ fnIn.fn = "calculateEMA"
    /\ mantissa # 0
    /\ Len(fnIn.prices) > fnIn.period
    /\ fnOut[Len(fnOut)] # fnIn.prices[1]

\* the calls of calculateBollingerBands, and the windows that have bands
BandsCall == fnIn.fn = "calculateBollingerBands"

BandsAt == IF BandsCall THEN fnIn.period..Len(fnOut) ELSE {}

WindowAt(i) == { fnIn.prices[j] : j \in (i - fnIn.period + 1)..i }

\* the exact mean of the window ending at i
ExactMean(i) == RDiv(ExactSum(fnIn.prices, i - fnIn.period + 1, i), Num(fnIn.period))

\* period * (population variance of the window ending at i), exactly
ExactSquares(i) ==
    ExactSum([j \in 1..Len(fnIn.prices) |->
                 RMul(RSub(fnIn.prices[j], ExactMean(i)),
                      RSub(fnIn.prices[j], ExactMean(i)))],
             i - fnIn.period + 1, i)

\* lower <= middle <= upper
BandsOrdered(b) == ~RLtV(b.middle, b.lower) /\ ~RLtV(b.upper, b.middle)

\* upper - middle = middle - lower = k * sd, sd the population standard
\* deviation of the window: period * (upper - middle)^2 = k^2 * squares
BandsExact(b, i) ==
    /\ RSub(b.upper, b.middle) = RSub(b.middle, b.lower)
    /\ RMul(Num(fnIn.period), RMul(RSub(b.upper, b.middle), RSub(b.upper, b.middle)))
          = RMul(Num(fnIn.stdDev * fnIn.stdDev), ExactSquares(i))
    /\ Cardinality(WindowAt(i)) = 1 => b.upper = b.middle /\ b.lower = b.middle

\* C13 as stated: at every index where the bands are available,
\* lower <= middle <= upper, upper - middle = middle - lower = k * population
\* standard deviation of the window, and for a constant window all three are
\* equal.
BandsSymmetricExactly ==
    \A i \in BandsAt :
       /\ IsNum(fnOut[i].middle) /\ IsNum(fnOut[i].upper) /\ IsNum(fnOut[i].lower)
       /\ BandsOrdered(fnOut[i])
       /\ BandsExact(fnOut[i], i)

\* |(upper - middle) - (middle - lower)| <= (|upper| + |lower|) / 2^mantissa
BandsNearlySymmetric(b) ==
    ~RLtV(RAdd(RAbs(b.upper), RAbs(b.lower)),
          RMul(Num(2 ^ mantissa),
               RAbs(RSub(RSub(b.upper, b.middle), RSub(b.middle, b.lower)))))

\* C13, amended: at every index where the bands are available they are
\* numbers with lower <= middle <= upper; in exact arithmetic they are
\* symmetric about the middle at k population standard deviations and equal
\* for a constant window; in arithmetic rounded to p bits the two distances
\* differ by at most (|upper| + |lower|) / 2^p, and the bands of a constant
\* window of P lie within 4 * (period + 1) * P / 2^p of P.
BandsOrderedAndSymmetricWithinRounding ==
    \A i \in BandsAt :
       /\ IsNum(fnOut[i].middle) /\ IsNum(fnOut[i].upper) /\ IsNum(fnOut[i].lower)
       /\ BandsOrdered(fnOut[i])
       /\ mantissa = 0 => BandsExact(fnOut[i], i)
       /\ mantissa # 0 =>
             /\ BandsNearlySymmetric(fnOut[i])
             /\ Cardinality(WindowAt(i)) = 1 =>
                   \A x \in { fnOut[i].middle, fnOut[i].upper, fnOut[i].lower } :
                      WithinRounding(x, fnIn.prices[i], 4 * fnIn.period + 3)

\* rounded bands of a constant window that are not equal
ConstantWindowBandsApart ==
    /\ mantissa # 0
    /\ \E i \in BandsAt :
          /\ Cardinality(WindowAt(i)) = 1
          /\ RLtV(fnOut[i].lower, fnOut[i].middle)
          /\ RLtV(fnOut[i].middle, fnOut[i].upper)

\* bands of a window of two different prices in exact arithmetic
BandsOfTwoPrices ==
    /\ mantissa = 0
    /\ \E i \in BandsAt :
          /\ Cardinality(WindowAt(i)) = 2
          /\ RLtV(fnOut[i].lower, fnOut[i].middle)

\* the number of prices or bars below which the function has no value to give
HistoryNeeded ==
    CASE fnIn.fn = "calculateRSI" -> fnIn.period + 1
      [] fnIn.fn = "calculateADX" -> 2 * fnIn.period
      [] OTHER -> fnIn.period

\* the length of the result and the unavailable markers of a short history
FullLength ==
    /\ Len(fnOut) = Len(fnIn.prices)
    /\ Len(fnIn.prices) < HistoryNeeded => \A i \in 1..Len(fnOut) : fnOut[i] = NULL

\* C14: for every indicator function (SMA, EMA, RSI, MACD, Bollinger, ADX) and
\* every input length, the call returns an array whose length equals the
\* input length; with insufficient history every entry is the unavailable
\* marker
IndicatorArraysFullLength ==
    fnIn.fn \in { "calculateSMA", "calculateEMA", "calculateRSI", "calculateMACD",
                  "calculateBollingerBands", "calculateADX" } => FullLength

\* the same for the functions other than calculateRSI
OtherIndicatorArraysFullLength ==
    fnIn.fn \in { "calculateSMA", "calculateEMA", "calculateMACD",
                  "calculateBollingerBands", "calculateADX" } => FullLength

---------------------------------------------------------------------------
(* Properties of calculateADX (SpecFloat) *)

\* a call on at least 2 * period bars (the bars of RisingBars have a true
\* range of 2)
ADXCall == fnIn.fn = "calculateADX" /\ Len(fnIn.prices) >= 2 * fnIn.period

\* a number in [0, 100]
Percent(v) == IsNum(v) /\ ~RLt(v, Num(0)) /\ ~RLt(Num(100), v)

\* the directional index of the +DI and -DI returned at position i
DXAt(i) ==
    IF RAdd(fnOut[i].plusDI, fnOut[i].minusDI) = Num(0) THEN Num(0)
    ELSE RMul(RDiv(RAbs(RSub(fnOut[i].plusDI, fnOut[i].minusDI)),
                   RAdd(fnOut[i].plusDI, fnOut[i].minusDI)), Num(100))

DXSeq == [i \in 1..Len(fnOut) |-> DXAt(i)]

\* the position of the first ADX value (adx[period + 1], counted from 0)
FirstADXAt == fnIn.period + 2

\* every +DI, -DI and ADX value returned lies in [0, 100]
ADXValuesInRange ==
    \A i \in 1..Len(fnOut) :
       /\ Percent(fnOut[i].plusDI)
       /\ Percent(fnOut[i].minusDI)
       /\ fnOut[i].adx # NULL => Percent(fnOut[i].adx)

\* the first ADX value is the mean of the last `period` DX values
FirstADXIsMeanOfPeriodDX ==
    Len(fnOut) >= FirstADXAt =>
       fnOut[FirstADXAt].adx =
          RDiv(ExactSum(DXSeq, FirstADXAt - fnIn.period + 1, FirstADXAt), Num(fnIn.period))

\* every later ADX value smooths the previous ADX value with the new DX
LaterADXSmoothsPrevious ==
    \A i \in (FirstADXAt + 1)..Len(fnOut) :
       fnOut[i].adx = RDiv(RAdd(RMul(fnOut[i - 1].adx, Num(fnIn.period - 1)), DXAt(i)),
                           Num(fnIn.period))

\* C30: for a series of at least 2 * period bars with a non-zero true range,
\* every +DI, -DI and ADX value of calculateADX lies in [0, 100], the first
\* ADX value is the average of exactly `period` DX values, and each later
\* step smooths the previously smoothed value
ADXInRangeAndWilderSmoothed ==
    ADXCall =>
       /\ ADXValuesInRange
       /\ mantissa = 0 => FirstADXIsMeanOfPeriodDX /\ LaterADXSmoothsPrevious

\* what the code computes in exact arithmetic: the first ADX value is the sum
\* of period + 1 DX values divided by period, and the later values smooth
\* the previous one
FirstADXSumsOneMoreDX ==
    (ADXCall /\ mantissa = 0) =>
       /\ Len(fnOut) >= FirstADXAt =>
             fnOut[FirstADXAt].adx =
                RDiv(ExactSum(DXSeq, FirstADXAt - fnIn.period, FirstADXAt),
                     Num(fnIn.period))
       /\ LaterADXSmoothsPrevious

\* a +DI of the cumulative phase above 100
PlusDIAbove100 ==
    /\ ADXCall /\ mantissa = 0
    /\ \E i \in 2..(fnIn.period + 1) : RLt(Num(100), fnOut[i].plusDI)

\* a first ADX value above 100, with later values smoothed from it
FirstADXAbove100 ==
    /\ ADXCall /\ mantissa = 0
    /\ Len(fnOut) > FirstADXAt
    /\ RLt(Num(100), fnOut[FirstADXAt].adx)

---------------------------------------------------------------------------
(* Properties of the support and resistance levels (SpecFloat) *)

LevelsCall == fnIn.fn = "calculateSupportResistance"

\* the bars calculateSupportResistance analyses
LevelsWindow ==
    SubSeq(fnIn.prices, 1,
           IF Len(fnIn.prices) < fnIn.period THEN Len(fnIn.prices) ELSE fnIn.period)

\* v or -v: the value whose local maxima are looked for
Signed(field, v) == IF field = "high" THEN v ELSE RNeg(v)

\* the positions of the local maxima of high, or of the local minima of low
ExtremaAt(field) ==
    { j \in 2..(Len(LevelsWindow) - 1) :
         /\ RLt(Signed(field, LevelsWindow[j - 1][field]),
                Signed(field, LevelsWindow[j][field]))
         /\ RLt(Signed(field, LevelsWindow[j + 1][field]),
                Signed(field, LevelsWindow[j][field])) }

\* the extremum values between x and y have no step of 0.5% or more: from each
\* of them but the largest, the next larger one is less than 0.5% above it
NoGapBetween(field, x, y) ==
    \A j \in ExtremaAt(field) :
       \/ RLt(LevelsWindow[j][field], x) \/ ~RLt(LevelsWindow[j][field], y)
       \/ \E k \in ExtremaAt(field) :
             /\ RLt(LevelsWindow[j][field], LevelsWindow[k][field])
             /\ ~RLt(y, LevelsWindow[k][field])
             /\ RLt(RDiv(RSub(LevelsWindow[k][field], LevelsWindow[j][field]),
                         LevelsWindow[j][field]),
                    R(5, 1000))

\* the positions of the extrema in the cluster of the extremum at position a
ClusterOf(field, a) ==
    { j \in ExtremaAt(field) :
         IF RLt(LevelsWindow[j][field], LevelsWindow[a][field])
         THEN NoGapBetween(field, LevelsWindow[j][field], LevelsWindow[a][field])
         ELSE NoGapBetween(field, LevelsWindow[a][field], LevelsWindow[j][field]) }

\* the exact mean of the extrema at the positions of a cluster
ClusterMean(field, cluster) ==
    RDiv(ExactSum([j \in 1..Len(LevelsWindow) |->
                      IF j \in cluster THEN LevelsWindow[j][field] ELSE Num(0)],
                  1, Len(LevelsWindow)),
         Num(Cardinality(cluster)))

\* the levels ascend
Ascending(levels) == \A k \in 1..(Len(levels) - 1) : ~RLt(levels[k + 1], levels[k])

\* the list holds the mean of the cluster: exactly in exact arithmetic, up to
\* the rounding of the sum and the division otherwise
HoldsMean(levels, field, cluster) ==
    \E k \in 1..Len(levels) :
       /\ mantissa = 0 => levels[k] = ClusterMean(field, cluster)
       /\ mantissa # 0 => WithinRounding(levels[k], ClusterMean(field, cluster),
                                         Cardinality(cluster))

\* the list holds a mean of the cluster that lies between its smallest and
\* its largest extremum
HoldsMeanInside(levels, field, cluster) ==
    \E k \in 1..Len(levels) :
       /\ mantissa = 0 => levels[k] = ClusterMean(field, cluster)
       /\ mantissa # 0 => WithinRounding(levels[k], ClusterMean(field, cluster),
                                         Cardinality(cluster))
       /\ \E j \in cluster : ~RLt(levels[k], LevelsWindow[j][field])
       /\ \E j \in cluster : ~RLt(LevelsWindow[j][field], levels[k])

\* the highest high and the lowest low of the window
WindowHigh == SetMax({ LevelsWindow[j].high : j \in 1..Len(LevelsWindow) })
WindowLow == SetMin({ LevelsWindow[j].low : j \in 1..Len(LevelsWindow) })

\* the lists are sorted, hold the classic levels computed from the pivot point
\* returned, and hold nothing but these and one level for each cluster
SortedWithClassicLevels ==
    /\ Ascending(fnOut.resistanceLevels) /\ Ascending(fnOut.supportLevels)
    /\ \A level \in { JsSub(JsMul(Num(2), fnOut.pivotPoint), WindowLow),
                      JsAdd(fnOut.pivotPoint, JsSub(WindowHigh, WindowLow)) } :
          \E k \in 1..Len(fnOut.resistanceLevels) : fnOut.resistanceLevels[k] = level
    /\ \A level \in { JsSub(JsMul(Num(2), fnOut.pivotPoint), WindowHigh),
                      JsSub(fnOut.pivotPoint, JsSub(WindowHigh, WindowLow)) } :
          \E k \in 1..Len(fnOut.supportLevels) : fnOut.supportLevels[k] = level
    /\ Len(fnOut.resistanceLevels)
          <= Cardinality({ ClusterOf("high", a) : a \in ExtremaAt("high") }) + 2
    /\ Len(fnOut.supportLevels)
          <= Cardinality({ ClusterOf("low", a) : a \in ExtremaAt("low") }) + 2

\* C24 as stated: for every bar window, calculateSupportResistance returns
\* resistanceLevels and supportLevels each sorted ascending, each containing
\* the classical levels (R1 and R2, resp. S1 and S2) in addition to every
\* cluster mean, where a cluster mean lies between the smallest and largest
\* extremum of its cluster and consecutive members of a cluster differ by
\* less than 0.5%
ClusterMeansInsideClusters ==
    (LevelsCall /\ Len(LevelsWindow) > 0) =>
       /\ SortedWithClassicLevels
       /\ \A a \in ExtremaAt("high") :
             HoldsMeanInside(fnOut.resistanceLevels, "high", ClusterOf("high", a))
       /\ \A a \in ExtremaAt("low") :
             HoldsMeanInside(fnOut.supportLevels, "low", ClusterOf("low", a))

\* C24, amended: the lists are sorted ascending and contain the classical
\* levels in addition to one level for each cluster of extrema (consecutive
\* members less than 0.5% apart); the level of a cluster of n extrema is
\* their mean up to rounding: exactly the mean in exact arithmetic, and
\* within (n + 1) * mean / 2^p of it in arithmetic rounded to p bits
ClusterMeansWithinRounding ==
    (LevelsCall /\ Len(LevelsWindow) > 0) =>
       /\ SortedWithClassicLevels
       /\ \A a \in ExtremaAt("high") :
             HoldsMean(fnOut.resistanceLevels, "high", ClusterOf("high", a))
       /\ \A a \in ExtremaAt("low") :
             HoldsMean(fnOut.supportLevels, "low", ClusterOf("low", a))

\* C24 witness: three local maxima of 342 form one cluster whose rounded mean,
\* 341, is below all of them
ClusterMeanBelowCluster ==
    /\ LevelsCall /\ mantissa # 0
    /\ ExtremaAt("high") = { 2, 4, 6 }
    /\ \A j \in ExtremaAt("high") : LevelsWindow[j].high = Num(342)
    /\ ClusterOf("high", 2) = { 2, 4, 6 }
    /\ Len(fnOut.resistanceLevels) = 3
    /\ fnOut.resistanceLevels[2] = Num(341)
    /\ fnOut.resistanceLevels[3] # Num(342)

\* two clusters of highs give two levels besides the classic ones
TwoClustersOfHighs ==
    /\ LevelsCall
    /\ Cardinality({ ClusterOf("high", a) : a \in ExtremaAt("high") }) = 2
    /\ Len(fnOut.resistanceLevels) = 4

---------------------------------------------------------------------------
(* Properties of the money-management settings (SpecSettings) *)

\* C16: two calls of getMoneyManagementSettings with equal arguments return
\* equal results, whatever calls of updateMoneyManagementSettings,
\* resetToDefaultSettings or loadMoneyManagementSettings ran in between (these
\* leave the record of the last call, fnIn and fnOut, as it is)
SettingsCallsAgree ==
    [][(fnIn.fn = "getMoneyManagementSettings" /\ fnIn' = fnIn) => fnOut' = fnOut]_vars

\* the maxRiskPerTrade stored for the profile of a call
StoredRisk(profileName) == userSettings[SettingsKey(Normalize(profileName))].maxRiskPerTrade

\* C29: after any sequence of updateMoneyManagementSettings and
\* resetToDefaultSettings calls and for every balance,
\* getMoneyManagementSettings returns a maxRiskPerTrade that is at most the
\* one stored for the profile, and leaves the stored settings as they are
AdjustedRiskAtMostStored ==
    [][ \A accountInfo \in Accounts, profileName \in ProfileNames \cup { "daytrading" } :
          GetMoneyManagementSettings(accountInfo, profileName)
          => /\ ~RLt(StoredRisk(profileName), fnOut'.maxRiskPerTrade)
             /\ userSettings' = userSettings
             /\ localStorage' = localStorage ]_vars

\* with a stored maxRiskPerTrade of at least 0.5% the adjustment does not
\* raise it, and the stored settings are never changed by the call
AdjustedRiskAtMostStoredAboveFloor ==
    [][ \A accountInfo \in Accounts, profileName \in ProfileNames \cup { "daytrading" } :
          GetMoneyManagementSettings(accountInfo, profileName)
          => /\ ~RLt(StoredRisk(profileName), R(5, 1000))
                   => ~RLt(StoredRisk(profileName), fnOut'.maxRiskPerTrade)
             /\ userSettings' = userSettings
             /\ localStorage' = localStorage ]_vars

\* a small account is given the floor of 0.5% above the stored 0.2%
SmallAccountRaisedToFloor ==
    /\ fnIn.fn = "getMoneyManagementSettings"
    /\ fnIn.accountInfo.balance = Num(500)
    /\ StoredRisk(fnIn.profileName) = R(2, 1000)
    /\ fnOut.maxRiskPerTrade = R(5, 1000)

---------------------------------------------------------------------------
(* Properties of the analysis run (Spec) *)

\* C8: in a run over fewer than 26 bars the MACD fields of the snapshot are
\* unavailable (null or undefined), calculateMACDSignal returns unavailable,
\* and MACD is counted neither in totalScore nor in maxPossibleScore
MACDUnavailableBelow26Bars ==
    (pc \in { "analysed", "recommended" } /\ Len(priceData) < 26) =>
        /\ latestData.technicalIndicators.momentum.macd \in { NULL, UNDEF }
        /\ latestData.technicalIndicators.momentum.macdSignal \in { NULL, UNDEF }
        /\ latestData.technicalIndicators.momentum.macdHistogram \in { NULL, UNDEF }
        /\ calculateMACDSignal(latestData.technicalIndicators) = NULL
        /\ pc = "recommended" =>
              /\ analysis.signals.macd = NULL
              /\ analysis.maxPossibleScore =
                    SumSeq([k \in 1..Len(Indicators) |->
                               IF Indicators[k] # "macd"
                                  /\ analysis.signals[Indicators[k]] # NULL
                               THEN JsMul(Num(2), JsAbs(analysis.weights[Indicators[k]]))
                               ELSE Num(0)],
                           1, Num(0))

\* C9: a series of 60 bars with high = low = close constant and constant
\* volume gives an ADX that is not unavailable, seven signals of 0, confidence
\* Low and the recommendation Hold
FlatSeriesNeutral ==
    (/\ pc = "recommended"
     /\ Len(priceData) = 60
     /\ \A i \in 1..Len(priceData) :
           /\ priceData[i].high = priceData[1].close
           /\ priceData[i].low = priceData[1].close
           /\ priceData[i].close = priceData[1].close
           /\ priceData[i].volume = priceData[1].volume)
    => /\ latestData.technicalIndicators.trend.adx # NULL
       /\ \A k \in 1..Len(Indicators) : analysis.signals[Indicators[k]] = Num(0)
       /\ analysis.confidence = "Bassa"
       /\ analysis.recommendation = "Mantieni"

\* C12: whenever macd and signal are both available, histogram = macd - signal,
\* and the MACD signal is positive when macd > signal, negative when
\* macd < signal, and neither positive nor negative when macd = signal
MACDSignalFollowsCrossing ==
    (/\ pc = "recommended"
     /\ IsNum(latestData.technicalIndicators.momentum.macd)
     /\ IsNum(latestData.technicalIndicators.momentum.macdSignal))
    => \E macd \in { latestData.technicalIndicators.momentum.macd },
          signal \in { latestData.technicalIndicators.momentum.macdSignal } :
          /\ latestData.technicalIndicators.momentum.macdHistogram = JsSub(macd, signal)
          /\ JsGt(macd, signal) => JsGt(analysis.signals.macd, Num(0))
          /\ JsLt(macd, signal) => JsLt(analysis.signals.macd, Num(0))
          /\ macd = signal => /\ ~JsGt(analysis.signals.macd, Num(0))
                              /\ ~JsLt(analysis.signals.macd, Num(0))

\* the closes of the series fetched fall from every bar to the next
StrictlyDecreasing ==
    \A i \in 1..(Len(priceData) - 1) : RLt(priceData[i + 1].close, priceData[i].close)

\* C17: for a strictly decreasing price series long enough for the RSI to be
\* computed, the RSI of the last bar is 0, the snapshot carries it as the
\* available number 0, and the RSI signal is +2
FallingSeriesOversold ==
    (/\ pc \in { "analysed", "recommended" }
     /\ StrictlyDecreasing
     /\ Len(priceData) >= IndicatorPeriods(profileKey, Len(priceData)).rsi + 2)
    => /\ latestData.technicalIndicators.momentum.rsi = Num(0)
       /\ calculateRSISignal(latestData.technicalIndicators) = Num(2)
       /\ pc = "recommended" => analysis.signals.rsi = Num(2)

\* the bars of the lookback window, priceData.slice(0, lookbackPeriods), in
\* the order fetched: the oldest first, the most recent last
LookbackWindow == SubSeq(priceData, 1, SetMin({ Num(Len(priceData)),
                                                Num(LookbackPeriods(profileKey)) }).n)

\* C19: in an analysis run the Trend pattern's direction is up (rialzista)
\* exactly when the most recent close in the lookback window is greater than
\* the oldest close in it, and the pivot point is (highest high + lowest low
\* + most recent close) / 3
TrendFollowsRecentClose ==
    pc \in { "analysed", "recommended" } =>
       \E window \in { LookbackWindow } :
          /\ \A k \in 1..Len(latestData.technicalIndicators.trend.patterns) :
                \E p \in { latestData.technicalIndicators.trend.patterns[k] } :
                   p.pattern = "Trend" =>
                      (p.direction = "rialzista"
                          <=> RLt(window[1].close, window[Len(window)].close))
          /\ latestData.technicalIndicators.levels.pivotPoint =
                RDiv(RAdd(RAdd(SetMax({ window[i].high : i \in 1..Len(window) }),
                               SetMin({ window[i].low : i \in 1..Len(window) })),
                          window[Len(window)].close),
                     Num(3))

---------------------------------------------------------------------------
(* Properties of overlapping fetchAllData calls (SpecAsync) *)

\* no call of fetchAllData is in progress
NoRunInProgress == \A r \in Runs : runs[r].at \in { "idle", "done" }

\* C27: once two overlapping calls of fetchAllData for different symbols
\* have both returned, the globals latestData and sentimentData describe
\* the same symbol, so that runAIAnalysis never attaches the sentiment of
\* one symbol to the technical data of another
GlobalsDescribeSameSymbol ==
    /\ (NoRunInProgress /\ latestData # NULL /\ sentimentData # NULL)
          => latestData.symbol = sentimentData.symbol
    /\ (NoRunInProgress /\ latestData # NULL /\ "sentimentData" \in DOMAIN latestData)
          => latestData.symbol = latestData.sentimentData.symbol

\* both calls have returned and runAIAnalysis has attached the sentiment
\* of the other symbol
AnalysisMixesSymbols ==
    /\ \A r \in Runs : runs[r].at = "done"
    /\ pc = "ai"
    /\ "sentimentData" \in DOMAIN latestData
    /\ latestData.symbol # latestData.sentimentData.symbol

---------------------------------------------------------------------------
(* Properties of the APICache (SpecCache) *)

\* the last step was a call of set, get, delete, clear or setMaxSize
CacheCallReturned == fnIn.fn \in { "set", "get", "delete", "clear", "setMaxSize" }

\* a value returned by get is not older than the TTL
GetReturnsFreshValue ==
    (fnIn.fn = "get" /\ fnOut # NULL) =>
        /\ CacheHas(apiCache, fnIn.key)
        /\ fnOut = Num(apiCache[CacheIndex(apiCache, fnIn.key)].timestamp)
        /\ now - apiCache[CacheIndex(apiCache, fnIn.key)].timestamp <= CacheTTL

\* C28: after any sequence of set, get, delete, clear and setMaxSize calls
\* the cache holds at most maxSize entries when a call has returned, and get
\* never returns a value older than the TTL
CacheWithinMaxSizeAndFresh ==
    /\ CacheCallReturned => Len(apiCache) <= cacheMaxSize
    /\ GetReturnsFreshValue

\* an entry older than the TTL is deleted by get and reported as a miss
ExpiredEntryIsAMiss ==
    [][ \A key \in CacheKeys :
          (/\ CacheHas(apiCache, key)
           /\ now - apiCache[CacheIndex(apiCache, key)].timestamp > CacheTTL
           /\ fnIn'.fn = "get" /\ fnIn'.key = key)
          => (fnOut' = NULL /\ ~CacheHas(apiCache', key)) ]_vars

\* set leaves more entries than maxSize after setMaxSize did
SetLeavesCacheAboveMaxSize == fnIn.fn = "set" /\ Len(apiCache) > cacheMaxSize

\* until setMaxSize lowers maxSize below the number of entries, the cache
\* holds at most maxSize entries
CacheWithinMaxSizeUnlessLowered ==
    [][ (Len(apiCache) <= cacheMaxSize /\ fnIn'.fn # "setMaxSize")
           => Len(apiCache') <= cacheMaxSize' ]_vars

=============================================================================
